---- MODULE Spec2Model ----
(***************************************************************************)
(* Model of the core of progressivis: the Dataflow staging graph           *)
(* (core/dataflow.py), the Module lifecycle (core/module.py) and the       *)
(* BaseScheduler run loop (core/scheduler_base.py).                        *)
(***************************************************************************)
EXTENDS Integers, Sequences, FiniteSets, TLC

\* ------------------------------------------------------------------ bounds

\* Number of Dataflow calls explored in one behaviour of DataflowSpec.
MaxCalls == 6

\* Largest run_number a behaviour of Spec reaches.
MaxRuns == 3

\* Number of calls of add_module, remove_module, for_input and stop the host
\* makes on the scheduler in one behaviour of Spec.
MaxHostCalls == 1

\* Number of Dataflow calls the host makes in one behaviour of MutationSpec.
MaxMutations == 2

\* Tenths of a second that pass during the steps of a run of the program.
MaxTicks == 2

\* Largest count of steps, reads, updates and creates a run_step reports.
MaxCount == 2

\* Largest number of run_step calls one Module.run called on its own makes.
MaxSteps == 2

\* Number of ticks the run loop makes over the callbacks of a program.
MaxTickCalls == 2

\* Largest max_iter option and largest number of passes over run_list made
\* in interaction mode.
MaxIter == 2

MaxPasses == 4

\* Largest number of rows appended to the table a ChangeManager follows, and
\* largest run_number passed to its update.
MaxRows == 4

MaxUpdates == 3

\* Largest number of start() and step() calls a host program makes.
MaxStarts == 3

\* ------------------------------------------------- constants of the program

\* Module.state_* (module.py:58-64)
state_created == 0
state_ready == 1
state_running == 2
state_blocked == 3
state_zombie == 4
state_terminated == 5
state_invalid == 6

\* KEEP_RUNNING (scheduler_base.py:29)
KEEP_RUNNING == 5

\* The module objects of the program under analysis, by name.
Names == {"inp", "flt", "vis"}

\* The names in sorted order.
SortedNames == <<"flt", "inp", "vis">>

\* The connections the program under analysis makes:
\* <<producer, consumer, input name>>.  inp -> flt -> vis is the pipeline;
\* vis feeds the optional _params of flt back, a cycle through a slot that
\* is not required.
Links == {<<"inp", "flt", "df">>, <<"flt", "vis", "df">>, <<"vis", "flt", "_params">>}

\* Module.is_input, overridden by input modules.
is_input(m) == m = "inp"

\* Module.is_data_input
is_data_input(m) == FALSE

\* Module.is_visualization, overridden by visualization modules.
is_visualization(m) == m = "vis"

\* Input slot names used by callers; every module has the optional "_params".
INames == {"df", "_params"}

\* Output slot names used by callers.
ONames == {"out"}

\* input_descriptors of each module: slot name -> required flag.
\* "_params" is appended, not required, by Module.__init__.
input_descriptors(m) ==
    IF m = "inp" THEN [n \in {"_params"} |-> FALSE]
    ELSE [n \in {"df", "_params"} |-> (n = "df")]

\* collections.namedtuple('Slot', ['module', 'name'])
Slot(m, n) == [module |-> m, name |-> n]

VARIABLES
    mstate,       \* Module._state of every module object
    df_modules,   \* keys of Dataflow._modules
    df_inputs,    \* Dataflow._inputs : name -> (input_name -> Slot)
    df_outputs,   \* Dataflow._outputs : name -> (output_name -> [Slot])
    df_last,      \* the last Dataflow call and how it ended
    df_trip,      \* snapshot taken by add_module, kept while remove_module follows
    df_calls      \* number of Dataflow calls made

dfvars == <<mstate, df_modules, df_inputs, df_outputs, df_last, df_trip, df_calls>>

VARIABLES
    in_slots,          \* Module._input_slots : input name -> producer or None
    sched_modules,     \* keys of BaseScheduler._modules
    new_modules_ids,   \* BaseScheduler._new_modules_ids
    slots_updated,     \* BaseScheduler._slots_updated
    run_list,          \* BaseScheduler._run_list
    runorder,          \* BaseScheduler._runorder
    valid,             \* BaseScheduler._valid
    run_index,         \* BaseScheduler._run_index
    run_number,        \* BaseScheduler._run_number
    module_selection,  \* BaseScheduler._module_selection
    reachability,      \* BaseScheduler._reachability
    stopped,           \* BaseScheduler._stopped
    running,           \* BaseScheduler._running
    keep_running,      \* BaseScheduler._keep_running
    notified,          \* a notify of _hibernate_cond reached the waiting loop
    input_mode,        \* local input_mode of _next_module
    pc,                \* where the thread of run() stands: idle, next, resume, body,
                       \* sleep, wait, cond, step, in_step
    cur,               \* the module yielded by _next_module
    next_state,        \* local next_state of Module.run
    exception,         \* local exception of Module.run
    sched_err,         \* the exception that ended the last run(), if any
    constructed,       \* the module objects that have been constructed
    host_calls,        \* calls the host has made on a scheduler that exists
    last_step_run      \* the run_number passed to the latest call of run_step made by
                       \* the Module.run in progress, 0 when it has made none

svars == <<in_slots, sched_modules, new_modules_ids, slots_updated, run_list, runorder,
           valid, run_index, run_number, module_selection, reachability, stopped,
           running, keep_running, notified, input_mode, pc, cur, next_state,
           exception, sched_err, constructed, host_calls, last_step_run>>

VARIABLES
    call_in,           \* the arguments of the function called on its own
    call_out           \* what the call returned or raised

fvars == <<call_in, call_out>>

VARIABLES
    timer,                   \* BaseScheduler.timer(), in sixtieths of a second
    selection_target_time,   \* BaseScheduler._selection_target_time
    interaction_latency,     \* BaseScheduler.interaction_latency
    granted                  \* sum of the quanta granted in the interaction window

tvars == <<timer, selection_target_time, interaction_latency, granted>>

vars == <<dfvars, svars, fvars, tvars>>

\* The Dataflow variables without the module states.
dfvars_nostate == <<df_modules, df_inputs, df_outputs, df_last, df_trip, df_calls>>

\* ----------------------------------------------------------------- helpers

\* d[k] = v on a dict
Put(d, k, v) == [x \in (DOMAIN d) \cup {k} |-> IF x = k THEN v ELSE d[x]]

\* del d[k]
Del(d, k) == [x \in (DOMAIN d) \ {k} |-> d[x]]

EmptyDict == [x \in {} |-> 0]

\* All orders in which a dict's keys (a finite set) can be iterated.
Orders(S) == {s \in [1..Cardinality(S) -> S] : \A i, j \in 1..Cardinality(S) : s[i] = s[j] => i = j}

\* The three maps of a Dataflow as one value.
Maps == <<df_modules, df_inputs, df_outputs>>

NoCall == [op |-> "none", err |-> "none"]

NoTrip == [phase |-> "none"]

\* ---------------------------------------------------------------- Dataflow

\* Dataflow.__init__
DataflowInit ==
    /\ df_modules = {}
    /\ df_inputs = EmptyDict
    /\ df_outputs = EmptyDict
    /\ df_last = NoCall
    /\ df_trip = NoTrip
    /\ df_calls = 0

\* Module.terminate
terminate(st, m) == [st EXCEPT ![m] = state_zombie]

\* Dataflow.add_module: both assertions, then the three assignments.
add_module_err(m) ==
    IF mstate[m] # state_created THEN "AssertionError"
    ELSE IF m \in DOMAIN df_inputs THEN "AssertionError"
    ELSE "none"

DfAddModule(m) ==
    /\ df_calls < MaxCalls
    /\ df_calls' = df_calls + 1
    /\ LET err == add_module_err(m) IN
       /\ df_last' = [op |-> "add_module", module |-> m, err |-> err]
       /\ IF err = "none"
          THEN /\ df_modules' = df_modules \cup {m}
               /\ df_inputs' = Put(df_inputs, m, EmptyDict)
               /\ df_outputs' = Put(df_outputs, m, EmptyDict)
               /\ df_trip' = [phase |-> "added", module |-> m, maps |-> Maps]
          ELSE /\ UNCHANGED <<df_modules, df_inputs, df_outputs>>
               /\ df_trip' = NoTrip
    /\ UNCHANGED mstate

\* The fan-out list self._outputs[p][o], empty when there is none.
fanout(outs, p, o) ==
    IF p \in DOMAIN outs /\ o \in DOMAIN outs[p] THEN outs[p][o] ELSE <<>>

\* The branch of Dataflow.add_connection that registers the reverse edge
\* (dataflow.py:79-84).  The last branch calls .append on the dict
\* self._outputs[output_module.name], which has no such attribute.
add_connection_outputs(outs, p, o, oslot) ==
    IF p \notin DOMAIN outs
    THEN [outputs |-> Put(outs, p, [x \in {o} |-> <<oslot>>]), err |-> "none"]
    ELSE IF o \notin DOMAIN outs[p]
    THEN [outputs |-> Put(outs, p, Put(outs[p], o, <<oslot>>)), err |-> "none"]
    ELSE [outputs |-> outs, err |-> "AttributeError"]

\* Mutant of add_connection_guard: the assertion on the bound input is dropped.
add_connection_guard_unchecked(ins, c, n) ==
    IF c \notin DOMAIN ins THEN "KeyError" ELSE "none"

\* The guard of Dataflow.add_connection (dataflow.py:76): the lookup of the
\* consumer's inputs, then the assertion that input_name is not yet bound.
add_connection_guard(ins, c, n) ==
    IF c \notin DOMAIN ins THEN "KeyError"
    ELSE IF n \in DOMAIN ins[c] THEN "AssertionError"
    ELSE "none"

DfAddConnection(p, o, c, n) ==
    /\ df_calls < MaxCalls
    /\ df_calls' = df_calls + 1
    /\ df_trip' = NoTrip
    /\ LET g == add_connection_guard(df_inputs, c, n)
           call == [op |-> "add_connection", producer |-> p, oname |-> o,
                    consumer |-> c, iname |-> n, guard |-> g,
                    before |-> fanout(df_outputs, p, o)]
       IN
       IF g # "none"
       THEN /\ df_last' = call @@ [err |-> g]
            /\ UNCHANGED <<df_modules, df_inputs, df_outputs>>
       ELSE LET r == add_connection_outputs(df_outputs, p, o, Slot(c, n)) IN
            /\ df_inputs' = Put(df_inputs, c, Put(df_inputs[c], n, Slot(p, o)))
            /\ df_outputs' = r.outputs
            /\ df_last' = call @@ [err |-> r.err]
            /\ UNCHANGED df_modules
    /\ UNCHANGED mstate

\* The loop of Dataflow._remove_module_inputs over module_slots.values(),
\* visiting the bound input names in the given order.
RECURSIVE remove_inputs_loop(_, _, _, _)
remove_inputs_loop(outs, module_slots, name, order) ==
    IF order = <<>> THEN [outputs |-> outs, err |-> "none"]
    ELSE LET slot == module_slots[Head(order)] IN
         IF slot.module \notin DOMAIN outs THEN [outputs |-> outs, err |-> "KeyError"]
         ELSE IF slot.name \notin DOMAIN outs[slot.module] THEN [outputs |-> outs, err |-> "KeyError"]
         ELSE LET slots == outs[slot.module][slot.name]
                  nslots == SelectSeq(slots, LAMBDA s : s.module # name)
                  pouts == IF nslots # <<>>
                           THEN Put(outs[slot.module], slot.name, nslots)
                           ELSE Del(outs[slot.module], slot.name)
              IN remove_inputs_loop(Put(outs, slot.module, pouts), module_slots, name, Tail(order))

\* Dataflow._remove_module_inputs
remove_module_inputs(ins, outs, name, order) ==
    IF name \notin DOMAIN ins THEN [inputs |-> ins, outputs |-> outs, err |-> "KeyError"]
    ELSE LET r == remove_inputs_loop(outs, ins[name], name, order) IN
         IF r.err # "none" THEN [inputs |-> ins, outputs |-> r.outputs, err |-> r.err]
         ELSE [inputs |-> Del(ins, name), outputs |-> r.outputs, err |-> "none"]

\* The loop of Dataflow._remove_module_outputs over list(module_slots.keys()).
RECURSIVE remove_outputs_loop(_, _, _)
remove_outputs_loop(module_slots, name, order) ==
    IF order = <<>> THEN [slots |-> module_slots, err |-> "none"]
    ELSE LET sname == Head(order)
             slots == module_slots[sname]
             nslots == SelectSeq(slots, LAMBDA s : s.module # name)
         IN IF nslots = slots THEN [slots |-> module_slots, err |-> "AssertionError"]
            ELSE remove_outputs_loop(
                     IF nslots # <<>> THEN Put(module_slots, sname, nslots)
                     ELSE Del(module_slots, sname),
                     name, Tail(order))

\* Mutant of remove_module_outputs: the final del self._outputs[name] is lost.
remove_module_outputs_kept(outs, name, order) ==
    IF name \notin DOMAIN outs THEN [outputs |-> outs, err |-> "KeyError"]
    ELSE LET r == remove_outputs_loop(outs[name], name, order) IN
         [outputs |-> Put(outs, name, r.slots), err |-> r.err]

\* Dataflow._remove_module_outputs
remove_module_outputs(outs, name, order) ==
    IF name \notin DOMAIN outs THEN [outputs |-> outs, err |-> "KeyError"]
    ELSE LET r == remove_outputs_loop(outs[name], name, order) IN
         IF r.err # "none" THEN [outputs |-> Put(outs, name, r.slots), err |-> r.err]
         ELSE [outputs |-> Del(outs, name), err |-> "none"]

\* Bookkeeping of the checks: remove_module(m) right after add_module(m)
\* keeps the snapshot add_module took.
round_trip(m) ==
    IF df_trip.phase = "added" /\ df_trip.module = m
    THEN [df_trip EXCEPT !.phase = "removed"]
    ELSE NoTrip

\* Dataflow.remove_module called with the module object: terminate, delete
\* from _modules, then unwire inputs, then unwire outputs.  An exception
\* leaves what was done before it.
DfRemoveModule(m) ==
    /\ df_calls < MaxCalls
    /\ df_calls' = df_calls + 1
    /\ mstate' = terminate(mstate, m)
    /\ IF m \notin df_modules
       THEN /\ df_last' = [op |-> "remove_module", module |-> m, member |-> FALSE, err |-> "KeyError"]
            /\ df_trip' = NoTrip
            /\ UNCHANGED <<df_modules, df_inputs, df_outputs>>
       ELSE \E iorder \in Orders(IF m \in DOMAIN df_inputs THEN DOMAIN df_inputs[m] ELSE {}) :
            LET ri == remove_module_inputs(df_inputs, df_outputs, m, iorder) IN
            /\ df_modules' = df_modules \ {m}
            /\ df_inputs' = ri.inputs
            /\ IF ri.err # "none"
               THEN /\ df_outputs' = ri.outputs
                    /\ df_last' = [op |-> "remove_module", module |-> m, member |-> TRUE, err |-> ri.err]
                    /\ df_trip' = round_trip(m)
               ELSE \E oorder \in Orders(IF m \in DOMAIN ri.outputs THEN DOMAIN ri.outputs[m] ELSE {}) :
                    LET ro == remove_module_outputs(ri.outputs, m, oorder) IN
                    /\ df_outputs' = ro.outputs
                    /\ df_last' = [op |-> "remove_module", module |-> m, member |-> TRUE, err |-> ro.err]
                    /\ df_trip' = round_trip(m)

\* Mutant of missing_slot: the required flag of the descriptor is ignored.
missing_slot_any(inputs, required, name) == name \notin DOMAIN inputs

\* The test of one descriptor in Dataflow.validate_module (dataflow.py:138-139):
\* slot = inputs.get(sd.name); sd.required and slot is None.
missing_slot(inputs, required, name) == required /\ name \notin DOMAIN inputs

\* The loop of Dataflow.validate_module over input_descriptors.values(),
\* leaving at the first required descriptor without a slot.
RECURSIVE validate_module_loop(_, _, _)
validate_module_loop(inputs, descs, order) ==
    IF order = <<>> THEN TRUE
    ELSE IF missing_slot(inputs, descs[Head(order)], Head(order)) THEN FALSE
    ELSE validate_module_loop(inputs, descs, Tail(order))

\* Dataflow.validate_module
validate_module(ins, m) ==
    validate_module_loop(ins[m], input_descriptors(m),
                         CHOOSE s \in Orders(DOMAIN input_descriptors(m)) : TRUE)

\* Dataflow.validate: the invalid modules; self._inputs[module.name] raises
\* KeyError for a module without an inputs entry.
validate(mods, ins) ==
    IF \E m \in mods : m \notin DOMAIN ins
    THEN [err |-> "KeyError", invalid |-> {}]
    ELSE [err |-> "none", invalid |-> {m \in mods : ~validate_module(ins, m)}]

DfValidate ==
    /\ df_calls < MaxCalls
    /\ df_calls' = df_calls + 1
    /\ df_last' = [op |-> "validate", again |-> (df_last.op = "validate")]
                   @@ validate(df_modules, df_inputs)
    /\ df_trip' = NoTrip
    /\ UNCHANGED <<mstate, df_modules, df_inputs, df_outputs>>


\* --------------------------------------------------------------- Scheduler

None == "None"

\* _module_selection is None, or a set of names.
SelNone == [none |-> TRUE, names |-> {}]

\* _runorder is None, or a list of names.
OrderNone == [none |-> TRUE, order |-> <<>>]

SeqToSet(q) == {q[i] : i \in DOMAIN q}

\* BaseScheduler.__init__
SchedulerInit ==
    /\ slots_updated = FALSE
    /\ run_list = <<>>
    /\ runorder = OrderNone
    /\ valid = FALSE
    /\ run_index = 0
    /\ run_number = 0
    /\ module_selection = SelNone
    /\ reachability = EmptyDict
    /\ stopped = FALSE
    /\ running = FALSE
    /\ keep_running = KEEP_RUNNING
    /\ notified = FALSE
    /\ input_mode = FALSE
    /\ pc = "idle"
    /\ cur = None
    /\ next_state = state_created
    /\ exception = FALSE
    /\ sched_err = "none"
    /\ last_step_run = 0

\* Module.__init__: no input slot is bound.
ModulesInit ==
    /\ mstate = [m \in Names |-> state_created]
    /\ in_slots = [m \in Names |-> [n \in DOMAIN input_descriptors(m) |-> None]]

\* The modules of mods have been constructed: Module.__init__ has registered
\* each with the scheduler (module.py:138-141, scheduler_base.py:567-569).
Registered(mods) ==
    /\ constructed = mods
    /\ sched_modules = mods
    /\ new_modules_ids = mods
    /\ host_calls = 0

\* BaseScheduler.has_input: the value returned.
has_input(ms) == ~ms.none /\ ms.names # {}

\* BaseScheduler.has_input: the selection it leaves (an empty one is reset).
has_input_cleanup(ms) == IF ~ms.none /\ ms.names = {} THEN SelNone ELSE ms

\* Module.has_any_input
has_any_input(slots, m) == \E n \in DOMAIN slots[m] : slots[m][n] # None

\* Module.validate_inputs
validate_inputs(slots, m) ==
    \A n \in DOMAIN input_descriptors(m) :
        ~(input_descriptors(m)[n] /\ slots[m][n] = None)

\* Module.validate_outputs: no output descriptor of these modules is
\* required, and a slot's validate_types accepts every connection of Links.
validate_outputs(slots, m) == TRUE

\* Module.validate_inouts
validate_inouts(slots, m) == validate_inputs(slots, m) /\ validate_outputs(slots, m)

\* Module.validate: the state it sets.
module_validate(slots, m) ==
    IF validate_inouts(slots, m) THEN state_blocked ELSE state_invalid

\* BaseScheduler.validate: a scheduler once valid is not validated again.
scheduler_validate(isvalid, mods, st, slots) ==
    IF isvalid THEN [valid |-> TRUE, mstate |-> st]
    ELSE [valid |-> \A m \in mods : validate_inouts(slots, m),
          mstate |-> [m \in Names |-> IF m \in mods THEN module_validate(slots, m) ELSE st[m]]]

\* BaseScheduler._collect_dependencies
collect_dependencies(mods, st, slots, only_required) ==
    [m \in {x \in mods : st[x] # state_invalid} |->
        {slots[m][n] : n \in {k \in DOMAIN slots[m] :
            slots[m][k] # None /\ (~only_required \/ input_descriptors(m)[k])}}]

\* toposort: one level after the other, the items without a pending
\* dependency first, in sorted order; self dependencies are ignored and an
\* item that is only a dependency is ordered too; ValueError on a cycle.
RECURSIVE toposort_levels(_, _)
toposort_levels(data, acc) ==
    LET ordered == {item \in DOMAIN data : data[item] = {}} IN
    IF ordered = {}
    THEN [err |-> IF DOMAIN data = {} THEN "none" ELSE "ValueError", order |-> acc]
    ELSE toposort_levels(
             [item \in (DOMAIN data) \ ordered |-> data[item] \ ordered],
             acc \o SelectSeq(SortedNames, LAMBDA x : x \in ordered))

toposort(deps) ==
    LET items == (DOMAIN deps) \cup UNION {deps[k] : k \in DOMAIN deps} IN
    toposort_levels([k \in items |-> IF k \in DOMAIN deps THEN deps[k] \ {k} ELSE {}], <<>>)

\* A shortest_path that stops at the direct consumers.
descendants_direct(deps, frontier, seen) ==
    {v \in DOMAIN deps : deps[v] \cap frontier # {}}

\* shortest_path over the matrix of _compute_reachability: the vertices at a
\* finite, non-zero distance from u, following producer -> consumer edges.
RECURSIVE descendants(_, _, _)
descendants(deps, frontier, seen) ==
    LET nxt == {v \in DOMAIN deps : deps[v] \cap frontier # {}} \ seen IN
    IF nxt = {} THEN seen ELSE descendants(deps, nxt, seen \cup nxt)

\* A reachability computation that subtracts nothing from the sets.
compute_reachability_unfiltered(deps, mods) ==
    IF \E k \in DOMAIN deps : ~(deps[k] \subseteq DOMAIN deps)
    THEN [err |-> "KeyError", reachability |-> EmptyDict]
    ELSE [err |-> "none",
          reachability |-> [u \in DOMAIN deps |-> {u} \cup descendants(deps, {u}, {})]]

\* BaseScheduler._compute_reachability; index[vertex2] raises KeyError for a
\* producer that is no key of the dependencies.
compute_reachability(deps, mods) ==
    IF \E k \in DOMAIN deps : ~(deps[k] \subseteq DOMAIN deps)
    THEN [err |-> "KeyError", reachability |-> EmptyDict]
    ELSE LET all_vis == {m \in mods : is_visualization(m)}
             raw == [u \in DOMAIN deps |-> {u} \cup descendants(deps, {u}, {})]
             reach_no_vis == UNION {raw[u] : u \in {x \in DOMAIN deps : all_vis \cap raw[x] = {}}}
         IN [err |-> "none", reachability |-> [u \in DOMAIN deps |-> raw[u] \ reach_no_vis]]

\* BaseScheduler.order_modules: a cycle (ValueError) is retried with the
\* required inputs only; any other exception, and a ValueError of the
\* retry, leaves the method.
order_modules(mods, st, slots, reach) ==
    LET d1 == collect_dependencies(mods, st, slots, FALSE)
        t1 == toposort(d1)
        d2 == collect_dependencies(mods, st, slots, TRUE)
        t2 == toposort(d2)
    IN IF t1.err = "none"
       THEN LET r == compute_reachability(d1, mods) IN
            [err |-> r.err, order |-> t1.order,
             reachability |-> IF r.err = "none" THEN r.reachability ELSE reach]
       ELSE IF t2.err # "none"
       THEN [err |-> t2.err, order |-> <<>>, reachability |-> reach]
       ELSE LET r == compute_reachability(d2, mods) IN
            [err |-> r.err, order |-> t2.order,
             reachability |-> IF r.err = "none" THEN r.reachability ELSE reach]

\* BaseScheduler._update_modules, with the exceptions that leave it:
\* a staged id that is no key of _modules (line 467), an exception of
\* order_modules (line 472), a name of the order that is no key (line 474).
update_modules(prev_run_list) ==
    LET same == [new_modules_ids |-> new_modules_ids, slots_updated |-> slots_updated,
                 run_list |-> prev_run_list, runorder |-> runorder, valid |-> valid,
                 mstate |-> mstate, reachability |-> reachability, err |-> "none"]
    IN
    IF new_modules_ids = {} THEN same
    ELSE IF ~(new_modules_ids \subseteq sched_modules) THEN [same EXCEPT !.err = "KeyError"]
    ELSE LET om == order_modules(sched_modules, mstate, in_slots, reachability)
             staged == [same EXCEPT !.new_modules_ids = {}, !.slots_updated = FALSE,
                                    !.run_list = <<>>, !.reachability = om.reachability]
         IN
         IF om.err # "none" THEN [staged EXCEPT !.err = om.err]
         ELSE IF ~(SeqToSet(om.order) \subseteq sched_modules)
         THEN [staged EXCEPT !.err = "KeyError", !.runorder = [none |-> FALSE, order |-> om.order],
                             !.run_list = SubSeq(om.order, 1,
                                 (CHOOSE i \in 1..Len(om.order) : om.order[i] \notin sched_modules
                                     /\ \A j \in 1..(i - 1) : om.order[j] \in sched_modules) - 1)]
         ELSE LET v == scheduler_validate(valid, sched_modules, mstate, in_slots) IN
              [staged EXCEPT !.runorder = [none |-> FALSE, order |-> om.order],
                             !.valid = v.valid, !.mstate = v.mstate,
                             !.run_list = IF v.valid THEN om.order ELSE prev_run_list]

\* BaseScheduler.all_blocked
all_blocked(rl, st) == \A i \in DOMAIN rl : st[rl[i]] = state_blocked

\* BaseScheduler.is_waiting_for_input
is_waiting_for_input(rl) == \E i \in DOMAIN rl : is_input(rl[i])

\* BaseScheduler.no_more_data
no_more_data(rl) == \A i \in DOMAIN rl : ~is_data_input(rl[i])

\* BaseScheduler._consider_module
consider_module(ms, m) == ~has_input(ms) \/ m \in ms.names

\* Module.is_ready: the value returned and the state it leaves; ready is the
\* set of bound input slots with buffered deltas or a newer producer.
\* Module.is_ready with a count of the terminated producers that takes in
\* the slots with pending data too.
is_ready_all_counted(st, slots, m, ready) ==
    LET bound == {n \in DOMAIN slots[m] : slots[m][n] # None}
        term == {n \in bound : st[slots[m][n]] \in {state_terminated, state_invalid}}
    IN
    IF st[m] = state_zombie THEN [ret |-> FALSE, state |-> state_terminated]
    ELSE IF st[m] = state_terminated THEN [ret |-> FALSE, state |-> st[m]]
    ELSE IF st[m] = state_invalid THEN [ret |-> FALSE, state |-> st[m]]
    ELSE IF ~has_any_input(slots, m) THEN [ret |-> TRUE, state |-> st[m]]
    ELSE IF st[m] = state_ready THEN [ret |-> TRUE, state |-> st[m]]
    ELSE IF st[m] = state_blocked
    THEN IF ~is_input(m) /\ bound # {} /\ term = bound
         THEN [ret |-> FALSE, state |-> state_zombie]
         ELSE [ret |-> (bound = {} \/ (ready \cap bound) # {}), state |-> st[m]]
    ELSE [ret |-> FALSE, state |-> st[m]]

is_ready(st, slots, m, ready) ==
    LET bound == {n \in DOMAIN slots[m] : slots[m][n] # None}
        term == {n \in bound \ ready : st[slots[m][n]] \in {state_terminated, state_invalid}}
    IN
    IF st[m] = state_zombie THEN [ret |-> FALSE, state |-> state_terminated]
    ELSE IF st[m] = state_terminated THEN [ret |-> FALSE, state |-> st[m]]
    ELSE IF st[m] = state_invalid THEN [ret |-> FALSE, state |-> st[m]]
    ELSE IF ~has_any_input(slots, m) THEN [ret |-> TRUE, state |-> st[m]]
    ELSE IF st[m] = state_ready THEN [ret |-> TRUE, state |-> st[m]]
    ELSE IF st[m] = state_blocked
    THEN IF ~is_input(m) /\ bound # {} /\ term = bound
         THEN [ret |-> FALSE, state |-> state_zombie]
         ELSE [ret |-> (bound = {} \/ (ready \cap bound) # {}), state |-> st[m]]
    ELSE [ret |-> FALSE, state |-> st[m]]

\* The sets of ready slots is_ready can find on the bound slots of m.
ReadySets(st, slots, m) ==
    IF st[m] = state_blocked
    THEN SUBSET {n \in DOMAIN slots[m] : slots[m][n] # None}
    ELSE {{}}

\* Condition.notify on _hibernate_cond: it reaches a loop that waits.
notify == IF pc = "wait" THEN TRUE ELSE notified

\* An exception leaves run(): _running keeps its value.
Crash(err) ==
    /\ pc' = "idle"
    /\ cur' = None
    /\ sched_err' = err

\* BaseScheduler.run, after _run_loop has returned (scheduler_base.py:377-382).
RunTail(ro) ==
    IF ro.none THEN Crash("TypeError") /\ UNCHANGED <<running, stopped>>
    ELSE IF ~(SeqToSet(ro.order) \subseteq sched_modules)
    THEN Crash("KeyError") /\ UNCHANGED <<running, stopped>>
    ELSE /\ pc' = "idle"
         /\ cur' = None
         /\ running' = FALSE
         /\ stopped' = TRUE
         /\ UNCHANGED sched_err

\* BaseScheduler.start / run up to the first resumption of _next_module.
Start ==
    /\ pc = "idle"
    /\ stopped' = FALSE
    /\ running' = TRUE
    /\ run_index' = 0
    /\ input_mode' = has_input(module_selection)
    /\ module_selection' = has_input_cleanup(module_selection)
    /\ pc' = "next"
    /\ sched_err' = "none"
    /\ UNCHANGED <<dfvars, in_slots, sched_modules, new_modules_ids, slots_updated, run_list,
                   runorder, valid, run_number, reachability, keep_running, notified, cur,
                   next_state, exception, constructed, host_calls, last_step_run>>

\* An end of pass that keeps the Terminated modules in run_list.
end_of_modules_kept(ms, rl, st) ==
    [module_selection |-> IF has_input(ms) THEN SelNone ELSE has_input_cleanup(ms),
     run_list |-> rl]

\* BaseScheduler._end_of_modules, with _interaction_opts None.
end_of_modules(ms, rl, st) ==
    [module_selection |-> IF has_input(ms) THEN SelNone ELSE has_input_cleanup(ms),
     run_list |-> SelectSeq(rl, LAMBDA m : st[m] # state_terminated)]

\* BaseScheduler._next_module from one yield to the next
\* (scheduler_base.py:411-437): the end of a round when the generator is
\* resumed, the loop test, the commit, the interaction edge and the yield.
GenNext ==
    /\ pc \in {"next", "resume"}
    /\ LET round == pc = "resume" /\ run_index >= Len(run_list)
           e == end_of_modules(module_selection, run_list, mstate)
           ms == IF round THEN e.module_selection ELSE module_selection
           rl == IF round THEN e.run_list ELSE run_list
           ri == IF round THEN 0 ELSE run_index
       IN
       IF stopped
       THEN /\ RunTail(runorder)
            /\ run_list' = rl
            /\ run_index' = ri
            /\ module_selection' = ms
            /\ UNCHANGED <<dfvars, new_modules_ids, slots_updated, runorder, valid,
                           reachability, input_mode>>
       ELSE LET avail == new_modules_ids # {} \/ slots_updated
                u == update_modules(rl)
                hi == has_input(ms)
                idx == IF avail \/ input_mode # hi THEN 0 ELSE ri
            IN
            /\ new_modules_ids' = u.new_modules_ids
            /\ slots_updated' = u.slots_updated
            /\ run_list' = u.run_list
            /\ runorder' = u.runorder
            /\ valid' = u.valid
            /\ mstate' = u.mstate
            /\ reachability' = u.reachability
            /\ UNCHANGED dfvars_nostate
            /\ IF u.err # "none"
               THEN /\ Crash(u.err)
                    /\ run_index' = ri
                    /\ module_selection' = ms
                    /\ UNCHANGED <<running, stopped, input_mode>>
               ELSE IF u.run_list = <<>>
               THEN /\ RunTail(u.runorder)
                    /\ run_index' = IF avail THEN 0 ELSE ri
                    /\ module_selection' = ms
                    /\ UNCHANGED input_mode
               ELSE /\ module_selection' = has_input_cleanup(ms)
                    /\ input_mode' = hi
                    /\ cur' = u.run_list[idx + 1]
                    /\ run_index' = idx + 1
                    /\ pc' = "body"
                    /\ UNCHANGED <<running, stopped, sched_err>>
    /\ UNCHANGED <<in_slots, sched_modules, run_number, keep_running, notified, next_state,
                   exception, constructed, host_calls, last_step_run>>

\* Module._update_params: the outcomes for the _params slot of m; a bound
\* slot whose data is not None raises NotImplementedError.
UpdateParamsOutcomes(slots, m) ==
    IF slots[m]["_params"] = None THEN {"none"} ELSE {"none", "NotImplementedError"}

\* A run loop that passes the run_number of the previous run again.
next_run_number_same(n) == n

\* The run_number BaseScheduler._run_loop passes to the next Module.run
\* (scheduler_base.py:395).
next_run_number(n) == n + 1

\* BaseScheduler._run_loop from the keep_running countdown to the call of
\* _consider_module (scheduler_base.py:392-393).
LoopBody ==
    /\ keep_running' = IF keep_running > 0 THEN keep_running - 1 ELSE keep_running
    /\ module_selection' = has_input_cleanup(module_selection)
    /\ IF consider_module(module_selection, cur)
       THEN pc' = "cond" /\ UNCHANGED cur
       ELSE pc' = "resume" /\ cur' = None
    /\ UNCHANGED <<dfvars, in_slots, sched_modules, new_modules_ids, slots_updated,
                   run_list, runorder, valid, run_index, run_number, reachability, stopped,
                   running, notified, input_mode, next_state, exception, sched_err,
                   constructed, host_calls, last_step_run>>

\* BaseScheduler._run_loop at the top of its body (scheduler_base.py:387-389):
\* the loop decides to hibernate when nothing can run and the countdown is
\* over; the test is made outside the lock of the condition.
Body ==
    /\ pc = "body"
    /\ IF /\ no_more_data(run_list)
          /\ all_blocked(run_list, mstate)
          /\ is_waiting_for_input(run_list)
          /\ keep_running = 0
       THEN /\ pc' = "sleep"
            /\ UNCHANGED <<dfvars, in_slots, sched_modules, new_modules_ids, slots_updated,
                           run_list, runorder, valid, run_index, run_number, module_selection,
                           reachability, stopped, running, keep_running, notified, input_mode,
                           cur, next_state, exception, sched_err, constructed, host_calls,
                           last_step_run>>
       ELSE LoopBody

\* _hibernate_cond.wait() is entered (scheduler_base.py:390-391): only a
\* notify made from now on reaches the loop.
Sleep ==
    /\ pc = "sleep"
    /\ pc' = "wait"
    /\ notified' = FALSE
    /\ UNCHANGED <<dfvars, in_slots, sched_modules, new_modules_ids, slots_updated,
                   run_list, runorder, valid, run_index, run_number, module_selection,
                   reachability, stopped, running, keep_running, input_mode, cur,
                   next_state, exception, sched_err, constructed, host_calls, last_step_run>>

\* _hibernate_cond.wait() returns after a notify.
Wake ==
    /\ pc = "wait"
    /\ notified
    /\ LoopBody

\* BaseScheduler._run_loop from the test module.is_ready() or has_input()
\* to the first test of the step loop of Module.run
\* (scheduler_base.py:393-398, module.py:690-713).
RunModule ==
    /\ pc = "cond"
    /\ module_selection' = has_input_cleanup(module_selection)
    /\ UNCHANGED <<dfvars_nostate, in_slots, sched_modules, new_modules_ids, slots_updated,
                   run_list, runorder, valid, run_index, reachability, stopped, running,
                   keep_running, notified, input_mode, constructed, host_calls,
                   last_step_run>>
    /\ \E ready \in ReadySets(mstate, in_slots, cur) :
          LET r == is_ready(mstate, in_slots, cur, ready)
              st == [mstate EXCEPT ![cur] = r.state]
          IN
          IF ~(r.ret \/ has_input(module_selection))
          THEN /\ pc' = "resume"
               /\ cur' = None
               /\ mstate' = st
               /\ UNCHANGED <<run_number, next_state, exception, sched_err>>
          ELSE /\ run_number < MaxRuns
               /\ run_number' = next_run_number(run_number)
               /\ exception' = FALSE
               /\ IF st[cur] = state_running
                  THEN /\ Crash("ProgressiveError")
                       /\ mstate' = st
                       /\ UNCHANGED next_state
                  ELSE /\ mstate' = [st EXCEPT ![cur] = state_running]
                       /\ \E o \in UpdateParamsOutcomes(in_slots, cur) :
                              IF o = "none"
                              THEN /\ pc' = "step"
                                   /\ next_state' = st[cur]
                                   /\ UNCHANGED <<cur, sched_err>>
                              ELSE Crash(o) /\ UNCHANGED next_state

\* Module.run from the end of the step loop to its return (module.py:772-782):
\* the state becomes next_state, _stop asserts it is not Running, and a
\* caught exception is raised again as RuntimeError.
RunFinish(st, ns, exc) ==
    /\ mstate' = [st EXCEPT ![cur] = ns]
    /\ last_step_run' = 0
    /\ next_state' = state_created
    /\ exception' = FALSE
    /\ IF ns = state_running THEN Crash("AssertionError")
       ELSE IF exc THEN Crash("RuntimeError")
       ELSE pc' = "resume" /\ cur' = None /\ UNCHANGED sched_err

\* The next_state values Module._return_run_step lets through (module.py:505-506).
StepStates == {s \in state_created..state_invalid : s >= state_ready /\ s <= state_zombie}

\* The test of the step loop of Module.run up to the call of run_step
\* (module.py:714-736): the loop is left on time or on a step size of 0, or
\* run_step is called with the run_number of this run.
Step ==
    /\ pc = "step"
    /\ UNCHANGED <<dfvars_nostate, in_slots, sched_modules, new_modules_ids, slots_updated,
                   run_list, runorder, valid, run_index, run_number, module_selection,
                   reachability, stopped, running, keep_running, notified, input_mode,
                   constructed, host_calls>>
    /\ \/ RunFinish(mstate, next_state, FALSE)
       \/ /\ pc' = "in_step"
          /\ last_step_run' = run_number
          /\ UNCHANGED <<mstate, cur, next_state, exception, sched_err>>

\* run_step returns or raises, and the loop decides to go on
\* (module.py:737-771): the state becomes the next_state of the result, and
\* the loop goes on only from Ready; StopIteration and any other exception
\* make the module a Zombie and leave the loop.
RunStep ==
    /\ pc = "in_step"
    /\ UNCHANGED <<dfvars_nostate, in_slots, sched_modules, new_modules_ids, slots_updated,
                   run_list, runorder, valid, run_index, run_number, module_selection,
                   reachability, stopped, running, keep_running, notified, input_mode,
                   constructed, host_calls>>
    /\ \/ \E r \in StepStates :
             IF r = state_ready
             THEN /\ next_state' = r
                  /\ mstate' = [mstate EXCEPT ![cur] = r]
                  /\ pc' = "step"
                  /\ UNCHANGED <<cur, sched_err, exception, last_step_run>>
             ELSE RunFinish(mstate, r, FALSE)
       \/ RunFinish(mstate, state_zombie, FALSE)
       \/ RunFinish(mstate, state_zombie, TRUE)

DataflowNext ==
    \/ \E m \in Names : DfAddModule(m)
    \/ \E p \in Names, o \in ONames, c \in Names, n \in INames : DfAddConnection(p, o, c, n)
    \/ \E m \in Names : DfRemoveModule(m)
    \/ DfValidate

\* The order in which the host program constructs its modules.
ProgramOrder == <<"inp", "flt", "vis">>

\* The order in which the host program connects the slots.
LinkOrder == <<(<<"inp", "flt", "df">>), (<<"flt", "vis", "df">>), (<<"vis", "flt", "_params">>)>>

\* The input slot of link l is bound to its producer.
Linked(l) == in_slots[l[2]][l[3]] = l[1]

\* The scheduler variables a call from the host leaves alone.
loopvars == <<run_list, runorder, valid, run_index, run_number, reachability, running,
              input_mode, pc, cur, next_state, exception, sched_err, last_step_run>>

\* Module.__init__ (module.py:138) calling BaseScheduler.add_module.
Construct(m) ==
    /\ m \notin constructed
    /\ \A i \in DOMAIN ProgramOrder :
           ProgramOrder[i] = m => \A j \in 1..(i - 1) : ProgramOrder[j] \in constructed
    /\ \A l \in Links : {l[1], l[2]} \subseteq constructed => Linked(l)
    /\ constructed' = constructed \cup {m}
    /\ sched_modules' = sched_modules \cup {m}
    /\ new_modules_ids' = new_modules_ids \cup {m}
    /\ UNCHANGED <<dfvars, in_slots, slots_updated, module_selection, stopped, keep_running,
                   notified, loopvars, host_calls>>

\* BaseScheduler.add_module on an existing module object: a module that is
\* not Created raises ProgressiveError.
SchedAddModule(m) ==
    /\ m \in constructed
    /\ host_calls < MaxHostCalls
    /\ host_calls' = host_calls + 1
    /\ IF mstate[m] # state_created
       THEN UNCHANGED <<sched_modules, new_modules_ids>>
       ELSE /\ sched_modules' = sched_modules \cup {m}
            /\ new_modules_ids' = new_modules_ids \cup {m}
    /\ UNCHANGED <<dfvars, in_slots, slots_updated, module_selection, stopped, keep_running,
                   notified, loopvars, constructed>>

\* BaseScheduler.remove_module: the module is terminated, then its key is
\* deleted (KeyError when it is no key).
SchedRemoveModule(m) ==
    /\ m \in constructed
    /\ host_calls < MaxHostCalls
    /\ host_calls' = host_calls + 1
    /\ mstate' = terminate(mstate, m)
    /\ sched_modules' = sched_modules \ {m}
    /\ UNCHANGED <<dfvars_nostate, in_slots, new_modules_ids, slots_updated, module_selection,
                   stopped, keep_running, notified, loopvars, constructed>>

\* Slot.connect for one link of the program: the input slot of the consumer
\* is bound and the scheduler is told with slots_updated().
Connect(p, c, n) ==
    /\ p \in constructed
    /\ c \in constructed
    /\ in_slots[c][n] = None
    /\ \A i \in DOMAIN LinkOrder :
           LinkOrder[i] = <<p, c, n>> => \A j \in 1..(i - 1) : Linked(LinkOrder[j])
    /\ in_slots' = [in_slots EXCEPT ![c][n] = p]
    /\ slots_updated' = TRUE
    /\ UNCHANGED <<dfvars, sched_modules, new_modules_ids, module_selection, stopped,
                   keep_running, notified, loopvars, constructed, host_calls>>

\* BaseScheduler.for_input: the countdown is reset and the loop notified
\* before the reachability lookup, which raises KeyError for an unknown name.
ForInput(m) ==
    /\ m \in constructed
    /\ host_calls < MaxHostCalls
    /\ host_calls' = host_calls + 1
    /\ keep_running' = KEEP_RUNNING
    /\ notified' = notify
    /\ IF m \notin DOMAIN reachability THEN UNCHANGED module_selection
       ELSE IF reachability[m] = {} THEN UNCHANGED module_selection
       ELSE IF ~has_input(module_selection)
       THEN module_selection' = [none |-> FALSE, names |-> reachability[m]]
       ELSE module_selection' = [none |-> FALSE,
                                 names |-> module_selection.names \cup reachability[m]]
    /\ UNCHANGED <<dfvars, in_slots, sched_modules, new_modules_ids, slots_updated, stopped,
                   loopvars, constructed>>

\* BaseScheduler.stop
Stop ==
    /\ host_calls < MaxHostCalls
    /\ host_calls' = host_calls + 1
    /\ keep_running' = KEEP_RUNNING
    /\ notified' = notify
    /\ stopped' = TRUE
    /\ UNCHANGED <<dfvars, in_slots, sched_modules, new_modules_ids, slots_updated,
                   module_selection, loopvars, constructed>>

\* The calls of the host program on the scheduler and the modules.
HostNext ==
    \/ \E m \in Names : Construct(m)
    \/ \E m \in Names : SchedAddModule(m)
    \/ \E m \in Names : SchedRemoveModule(m)
    \/ \E l \in Links : Connect(l[1], l[2], l[3])
    \/ \E m \in Names : ForInput(m)
    \/ Stop

\* The steps of the thread that executes BaseScheduler.run.
LoopNext ==
    \/ Start
    \/ GenNext
    \/ Body
    \/ Sleep
    \/ Wake
    \/ RunModule
    \/ Step
    \/ RunStep

\* A step of the program leaves alone the variables of the functions called
\* on their own and the clock of the interaction window.
Untimed == UNCHANGED <<fvars, tvars>>

Next ==
    \/ \E m \in Names : Construct(m) /\ Untimed
    \/ \E m \in Names : SchedAddModule(m) /\ Untimed
    \/ \E m \in Names : SchedRemoveModule(m) /\ Untimed
    \/ \E l \in Links : Connect(l[1], l[2], l[3]) /\ Untimed
    \/ \E m \in Names : ForInput(m) /\ Untimed
    \/ Stop /\ Untimed
    \/ Start /\ Untimed
    \/ GenNext /\ Untimed
    \/ Body /\ Untimed
    \/ Sleep /\ Untimed
    \/ Wake /\ Untimed
    \/ RunModule /\ Untimed
    \/ Step /\ Untimed
    \/ RunStep /\ Untimed

\* No function is called on its own.
NoArg == [fn |-> "none"]

\* A tenth of a second, the quantum that replaces 0 (scheduler_base.py:656),
\* and a second, in time units; a unit is a sixtieth of a second, so that
\* a time left divides evenly among one, two or three modules.
Tenth == 6

Second == 60

\* The 'quantum' parameter of a module (module.py:53): half a second.
default_quantum == 30

\* BaseScheduler.__init__: the timing attributes, interaction_latency = 1.
TimingInit ==
    /\ timer = 0
    /\ selection_target_time = -1
    /\ interaction_latency = Second
    /\ granted = 0

Init ==
    /\ ModulesInit
    /\ DataflowInit
    /\ SchedulerInit
    /\ Registered({})
    /\ call_in = NoArg
    /\ call_out = NoArg
    /\ TimingInit

Spec == Init /\ [][Next]_vars

\* The state in which the modules of the program have been constructed and
\* no scheduler runs: the Dataflow is edited alone.
DataflowProgramInit ==
    /\ ModulesInit
    /\ DataflowInit
    /\ SchedulerInit
    /\ Registered(Names)
    /\ call_in = NoArg
    /\ call_out = NoArg
    /\ TimingInit

\* The Dataflow calls of a host program whose scheduler is not running.
DataflowOnlyNext ==
    \/ \E m \in Names : DfAddModule(m) /\ UNCHANGED svars /\ Untimed
    \/ \E p \in Names, o \in ONames, c \in Names, n \in INames :
          DfAddConnection(p, o, c, n) /\ UNCHANGED svars /\ Untimed
    \/ \E m \in Names : DfRemoveModule(m) /\ UNCHANGED svars /\ Untimed
    \/ DfValidate /\ UNCHANGED svars /\ Untimed

DataflowSpec == DataflowProgramInit /\ [][DataflowOnlyNext]_vars

\* The host program edits the Dataflow while the scheduler of the modules runs.
MutationNext ==
    \/ \E m \in Names : Construct(m) /\ Untimed
    \/ \E l \in Links : Connect(l[1], l[2], l[3]) /\ Untimed
    \/ Start /\ Untimed
    \/ GenNext /\ Untimed
    \/ Body /\ Untimed
    \/ RunModule /\ Untimed
    \/ Step /\ Untimed
    \/ RunStep /\ Untimed
    \/ \E m \in constructed :
          df_calls < MaxMutations /\ DfAddModule(m) /\ UNCHANGED svars /\ Untimed
    \/ \E l \in Links :
          /\ {l[1], l[2]} \subseteq constructed
          /\ df_calls < MaxMutations
          /\ DfAddConnection(l[1], "out", l[2], l[3])
          /\ UNCHANGED svars
          /\ Untimed
    \/ \E m \in constructed :
          df_calls < MaxMutations /\ DfRemoveModule(m) /\ UNCHANGED svars /\ Untimed

MutationSpec == Init /\ [][MutationNext]_vars

\* ------------------------------------------------ a program with a cycle

\* The links of a host program that connects flt and vis in a cycle of
\* required inputs.
CycleLinks == {<<"flt", "vis", "df">>, <<"vis", "flt", "df">>}

\* Module.__init__ calling BaseScheduler.add_module, in any order.
CycleConstruct(m) ==
    /\ m \notin constructed
    /\ constructed' = constructed \cup {m}
    /\ sched_modules' = sched_modules \cup {m}
    /\ new_modules_ids' = new_modules_ids \cup {m}
    /\ UNCHANGED <<dfvars, in_slots, slots_updated, module_selection, stopped, keep_running,
                   notified, loopvars, host_calls>>

\* An input slot of c is connected to p; the slot tells the scheduler.
CycleConnect(p, c, n) ==
    /\ p \in constructed
    /\ c \in constructed
    /\ in_slots[c][n] = None
    /\ in_slots' = [in_slots EXCEPT ![c][n] = p]
    /\ slots_updated' = TRUE
    /\ UNCHANGED <<dfvars, sched_modules, new_modules_ids, module_selection, stopped,
                   keep_running, notified, loopvars, constructed, host_calls>>

CycleNext ==
    \/ \E m \in Names : CycleConstruct(m) /\ Untimed
    \/ \E l \in CycleLinks : CycleConnect(l[1], l[2], l[3]) /\ Untimed
    \/ Stop /\ Untimed
    \/ Start /\ Untimed
    \/ GenNext /\ Untimed
    \/ Body /\ Untimed
    \/ RunModule /\ Untimed
    \/ Step /\ Untimed
    \/ RunStep /\ Untimed

CycleSpec == Init /\ [][CycleNext]_vars

\* -------------------------------- modules added while the loop commits

\* BaseScheduler._add_module, first statement (scheduler_base.py:567): the
\* host thread constructing m stages the name of m.
AddModuleStage(m) ==
    /\ m \notin constructed
    /\ m \notin new_modules_ids
    /\ \A i \in DOMAIN ProgramOrder :
           ProgramOrder[i] = m => \A j \in 1..(i - 1) : ProgramOrder[j] \in constructed
    /\ \A l \in Links : {l[1], l[2]} \subseteq constructed => Linked(l)
    /\ new_modules_ids' = new_modules_ids \cup {m}
    /\ UNCHANGED <<dfvars, in_slots, sched_modules, slots_updated, module_selection, stopped,
                   keep_running, notified, loopvars, constructed, host_calls>>

\* The module whose name is staged and that is no key of the modules map
\* yet: its add_module is between its two statements.
Staging(m) == m \notin constructed /\ m \in new_modules_ids

\* BaseScheduler._add_module, second statement (scheduler_base.py:568): m
\* becomes a key of the modules map and its constructor returns.
AddModuleInsert(m) ==
    /\ Staging(m)
    /\ sched_modules' = sched_modules \cup {m}
    /\ constructed' = constructed \cup {m}
    /\ UNCHANGED <<dfvars, in_slots, new_modules_ids, slots_updated, module_selection, stopped,
                   keep_running, notified, loopvars, host_calls>>

\* The host thread constructs and connects the modules while the thread of
\* the loop runs: the steps of the two threads interleave.
ConcurrentNext ==
    \/ \E m \in Names : AddModuleStage(m) /\ Untimed
    \/ \E m \in Names : AddModuleInsert(m) /\ Untimed
    \/ \E l \in Links : Connect(l[1], l[2], l[3]) /\ Untimed
    \/ Stop /\ Untimed
    \/ Start /\ Untimed
    \/ GenNext /\ Untimed
    \/ Body /\ Untimed
    \/ Sleep /\ Untimed
    \/ Wake /\ Untimed
    \/ RunModule /\ Untimed
    \/ Step /\ Untimed
    \/ RunStep /\ Untimed

ConcurrentSpec == Init /\ [][ConcurrentNext]_vars

\* ----------------------------------------------- a linear pipeline

\* The modules and the link of a host program that feeds the consumer flt
\* from the source inp and starts the scheduler once both are connected.
PipelineNames == {"inp", "flt"}

PipelineLink == <<"inp", "flt", "df">>

\* BaseScheduler.start called once by the host program of the pipeline.
PipelineStart ==
    /\ constructed = PipelineNames
    /\ Linked(PipelineLink)
    /\ run_number = 0
    /\ sched_err = "none"
    /\ Start

\* The steps of the thread of run().
PipelineLoop ==
    \/ PipelineStart /\ Untimed
    \/ GenNext /\ Untimed
    \/ Body /\ Untimed
    \/ Sleep /\ Untimed
    \/ RunModule /\ Untimed
    \/ Step /\ Untimed
    \/ RunStep /\ Untimed

\* is_ready finds no pending data on the slot of flt and returns false.
NothingBuffered ==
    /\ RunModule /\ Untimed
    /\ cur = "flt"
    /\ pc' = "resume"

\* The step loop of Module.run is left because the quantum is over.
QuantumOver ==
    /\ Step /\ Untimed
    /\ pc' # "in_step"

PipelineNext ==
    \/ \E m \in PipelineNames : Construct(m) /\ Untimed
    \/ Connect(PipelineLink[1], PipelineLink[2], PipelineLink[3]) /\ Untimed
    \/ PipelineStart /\ Untimed
    \/ GenNext /\ Untimed
    \/ Body /\ Untimed
    \/ Sleep /\ Untimed
    \/ RunModule /\ Untimed
    \/ Step /\ Untimed
    \/ RunStep /\ Untimed

PipelineSpec == Init /\ [][PipelineNext]_vars

\* The thread of run() keeps taking steps, the quantum of a run is over in
\* the end, and the consumer, which reads what is buffered on its slot,
\* finds the slot empty in the end.
PipelineFairSpec ==
    PipelineSpec /\ WF_vars(PipelineLoop) /\ SF_vars(QuantumOver) /\ SF_vars(NothingBuffered)

\* ------------------------------------------------- the interaction window

\* The latencies the scheduler is constructed with: a tenth of a second and
\* the default.
Latencies == {Tenth, Second}

Max(a, b) == IF a >= b THEN a ELSE b

\* BaseScheduler.time_left
time_left(ms, target, now) ==
    IF target <= 0 /\ ~has_input(ms) THEN 0 ELSE Max(0, target - now)

\* BaseScheduler.fix_quantum
fix_quantum(ms, m, quantum, target, now) ==
    LET q == IF has_input(ms) /\ m \in ms.names
             THEN time_left(ms, target, now) \div Cardinality(ms.names)
             ELSE quantum
    IN IF q = 0 THEN Tenth ELSE q

\* BaseScheduler(interaction_latency=l)
InteractionInit ==
    /\ ModulesInit
    /\ DataflowInit
    /\ SchedulerInit
    /\ Registered({})
    /\ call_in = NoArg
    /\ call_out = NoArg
    /\ timer = 0
    /\ selection_target_time = -1
    /\ interaction_latency \in Latencies
    /\ granted = 0

\* for_input: a call that starts interaction mode sets the target time
\* (scheduler_base.py:611-615); the window starts with nothing granted.
TimedForInput(m) ==
    /\ ForInput(m)
    /\ IF ~has_input(module_selection) /\ has_input(module_selection')
       THEN /\ selection_target_time' = timer + interaction_latency
            /\ granted' = 0
       ELSE UNCHANGED <<selection_target_time, granted>>
    /\ UNCHANGED <<timer, interaction_latency>>

\* _next_module: _end_of_modules resets the target time at the end of a
\* round (scheduler_base.py:486).
TimedGenNext ==
    /\ GenNext
    /\ selection_target_time' =
           IF pc = "resume" /\ run_index >= Len(run_list) THEN -1 ELSE selection_target_time
    /\ UNCHANGED <<timer, interaction_latency, granted>>

\* Module.run asks fix_quantum for its quantum once _update_params has
\* returned (module.py:696-697); a quantum granted to a module of the
\* selection in interaction mode counts for the window.
TimedRunModule ==
    /\ RunModule
    /\ granted' =
           IF pc' = "step" /\ has_input(module_selection) /\ cur \in module_selection.names
           THEN granted + fix_quantum(module_selection, cur, default_quantum,
                                      selection_target_time, timer)
           ELSE granted
    /\ UNCHANGED <<timer, selection_target_time, interaction_latency>>

\* A tenth of a second passes while run_step executes.
Tick ==
    /\ pc = "in_step"
    /\ timer < MaxTicks * Tenth
    /\ timer' = timer + Tenth
    /\ UNCHANGED <<dfvars, svars, fvars, selection_target_time, interaction_latency, granted>>

InteractionNext ==
    \/ \E m \in Names : Construct(m) /\ Untimed
    \/ \E l \in Links : Connect(l[1], l[2], l[3]) /\ Untimed
    \/ \E m \in Names : TimedForInput(m) /\ UNCHANGED fvars
    \/ Start /\ Untimed
    \/ TimedGenNext /\ UNCHANGED fvars
    \/ Body /\ Untimed
    \/ Sleep /\ Untimed
    \/ Wake /\ Untimed
    \/ TimedRunModule /\ UNCHANGED fvars
    \/ Step /\ Untimed
    \/ RunStep /\ Untimed
    \/ Tick

InteractionSpec == InteractionInit /\ [][InteractionNext]_vars

\* ------------------------------------------- functions called on their own

\* The dependency maps over the modules of the program: name -> producers.
DepMaps == UNION {[D -> SUBSET Names] : D \in SUBSET Names}

\* The modules exist and _compute_reachability is about to be called with
\* one dependency map.
ReachInit ==
    /\ ModulesInit
    /\ DataflowInit
    /\ SchedulerInit
    /\ Registered(Names)
    /\ call_in \in {[fn |-> "reach", deps |-> d] : d \in DepMaps}
    /\ call_out = NoArg
    /\ TimingInit

\* BaseScheduler._compute_reachability is called and returns or raises.
CallReachability ==
    /\ call_in.fn = "reach"
    /\ call_out = NoArg
    /\ call_out' = [fn |-> "reach",
                    result |-> compute_reachability(call_in.deps, sched_modules)]
    /\ UNCHANGED <<call_in, dfvars, svars, tvars>>

ReachSpec == ReachInit /\ [][CallReachability]_vars

\* A _return_run_step that returns its arguments as they are.
return_run_step_asis(acc, next_state_arg, steps_run, reads, updates, creates) ==
    [err |-> "none", steps_acc |-> acc + steps_run,
     ret |-> [next_state |-> next_state_arg, steps_run |-> steps_run, reads |-> reads,
              updates |-> updates, creates |-> creates]]

\* A _return_run_step that corrects every creates > updates and never raises
\* ProgressiveError.
return_run_step_lenient(acc, next_state_arg, steps_run, reads, updates, creates) ==
    IF ~(next_state_arg >= state_ready /\ next_state_arg <= state_zombie)
    THEN [err |-> "AssertionError", steps_acc |-> acc]
    ELSE [err |-> "none", steps_acc |-> acc + steps_run,
          ret |-> [next_state |-> next_state_arg, steps_run |-> steps_run, reads |-> reads,
                   updates |-> IF creates > updates THEN creates ELSE updates,
                   creates |-> creates]]

\* Module._return_run_step: the exception it raises or the dict it returns,
\* and the steps_acc it leaves (module.py:503-517).
return_run_step(acc, next_state_arg, steps_run, reads, updates, creates) ==
    IF ~(next_state_arg >= state_ready /\ next_state_arg <= state_zombie)
    THEN [err |-> "AssertionError", steps_acc |-> acc]
    ELSE IF ~(creates # 0 /\ updates = 0) /\ creates > updates
    THEN [err |-> "ProgressiveError", steps_acc |-> acc + steps_run]
    ELSE [err |-> "none", steps_acc |-> acc + steps_run,
          ret |-> [next_state |-> next_state_arg, steps_run |-> steps_run, reads |-> reads,
                   updates |-> IF creates # 0 /\ updates = 0 THEN creates ELSE updates,
                   creates |-> creates]]

\* The counts a run_step passes: Python integers, negative ones included.
Counts == (0 - 1)..MaxCount

\* A module with no step run yet is about to call _return_run_step.
StepResultInit ==
    /\ ModulesInit
    /\ DataflowInit
    /\ SchedulerInit
    /\ Registered(Names)
    /\ call_in \in {[fn |-> "return_run_step", next_state |-> ns, steps_run |-> sr,
                      reads |-> rd, updates |-> up, creates |-> cr] :
                         ns \in state_created..state_invalid, sr \in 0..MaxCount,
                         rd \in {0, MaxCount}, up \in Counts, cr \in Counts}
    /\ call_out = NoArg
    /\ TimingInit

\* Module._return_run_step is called and returns or raises.
CallReturnRunStep ==
    /\ call_in.fn = "return_run_step"
    /\ call_out = NoArg
    /\ call_out' = [fn |-> "return_run_step",
                    result |-> return_run_step(0, call_in.next_state, call_in.steps_run,
                                               call_in.reads, call_in.updates,
                                               call_in.creates)]
    /\ UNCHANGED <<call_in, dfvars, svars, tvars>>

StepResultSpec == StepResultInit /\ [][CallReturnRunStep]_vars

\* The input slots a host program can have bound when is_ready is called:
\* every link of the program is connected or not.
SlotMaps ==
    {[m \in Names |-> [n \in DOMAIN input_descriptors(m) |->
                          IF \E l \in ls : l[2] = m /\ l[3] = n
                          THEN (CHOOSE l \in ls : l[2] = m /\ l[3] = n)[1]
                          ELSE None]] : ls \in SUBSET Links}

\* Module.is_ready is about to be called on module m, the modules being in
\* the states st and the slots of ready having buffered deltas or a producer
\* updated after them.
ReadyInit ==
    /\ ModulesInit
    /\ DataflowInit
    /\ SchedulerInit
    /\ Registered(Names)
    /\ call_in \in {[fn |-> "is_ready", m |-> m, st |-> st, slots |-> sl, ready |-> rd] :
                       m \in Names,
                       st \in [Names -> {state_ready, state_blocked, state_zombie,
                                         state_terminated, state_invalid}],
                       sl \in SlotMaps, rd \in SUBSET INames}
    /\ call_in.ready \subseteq {n \in DOMAIN call_in.slots[call_in.m] :
                                   call_in.slots[call_in.m][n] # None}
    /\ call_out = NoArg
    /\ TimingInit

\* Module.is_ready is called and returns.
CallIsReady ==
    /\ call_in.fn = "is_ready"
    /\ call_out = NoArg
    /\ call_out' = [fn |-> "is_ready",
                    result |-> is_ready(call_in.st, call_in.slots, call_in.m, call_in.ready)]
    /\ UNCHANGED <<call_in, dfvars, svars, tvars>>

ReadySpec == ReadyInit /\ [][CallIsReady]_vars

\* The options of set_interaction_opts (scheduler_base.py:83-101): none is
\* TRUE when it was never called; starving_mods tells whether witnesses
\* were given, max_time and max_iter are 0 when None.
InteractionOpts ==
    {[none |-> TRUE, starving_mods |-> FALSE, max_time |-> 0, max_iter |-> 0]}
        \cup [none : {FALSE}, starving_mods : BOOLEAN, max_time : 0..MaxCount,
              max_iter : 0..MaxIter]

\* BaseScheduler._proc_interaction_opts (scheduler_base.py:103-132) at the
\* end of a pass: selected tells whether has_input() holds, cnt is
\* _inter_cycles_cnt, steps the sum of steps_acc of the witnesses, duration
\* the time since the start of the interaction mode.
proc_interaction_opts(opts, selected, cnt, steps, duration) ==
    IF ~selected THEN [selected |-> selected, cnt |-> cnt]
    ELSE IF opts.none THEN [selected |-> FALSE, cnt |-> 0]
    ELSE IF opts.starving_mods /\ steps = 0 THEN [selected |-> FALSE, cnt |-> 0]
    ELSE IF opts.max_time # 0 /\ duration >= opts.max_time THEN [selected |-> FALSE, cnt |-> 0]
    ELSE IF opts.max_iter # 0
    THEN IF cnt >= opts.max_iter THEN [selected |-> FALSE, cnt |-> 0]
         ELSE [selected |-> selected, cnt |-> cnt + 1]
    ELSE [selected |-> selected, cnt |-> cnt]

\* for_input has selected modules and _next_module has entered the
\* interaction mode with _inter_cycles_cnt = 0 (scheduler_base.py:407-408,
\* 426-428); no pass has been made yet.
PassesInit ==
    /\ ModulesInit
    /\ DataflowInit
    /\ SchedulerInit
    /\ Registered(Names)
    /\ call_in \in {[fn |-> "passes", opts |-> o] : o \in InteractionOpts}
    /\ call_out = [fn |-> "passes", selected |-> TRUE, cnt |-> 0, passes |-> 0,
                   others |-> FALSE]
    /\ TimingInit

\* A pass over run_list made in interaction mode ends: _end_of_modules calls
\* _proc_interaction_opts (scheduler_base.py:485). others records that the
\* witnesses were dried or the time was out at the end of some pass.
EndOfPass ==
    /\ call_in.fn = "passes"
    /\ call_out.selected
    /\ call_out.passes < MaxPasses
    /\ \E steps \in 0..1, duration \in 0..MaxCount :
          LET r == proc_interaction_opts(call_in.opts, call_out.selected, call_out.cnt,
                                         steps, duration)
          IN call_out' = [fn |-> "passes", selected |-> r.selected, cnt |-> r.cnt,
                          passes |-> call_out.passes + 1,
                          others |-> \/ call_out.others
                                     \/ call_in.opts.starving_mods /\ steps = 0
                                     \/ /\ call_in.opts.max_time # 0
                                        /\ duration >= call_in.opts.max_time]
    /\ UNCHANGED <<call_in, dfvars, svars, tvars>>

PassesSpec == PassesInit /\ [][EndOfPass]_vars

\* The elements of a set of row positions in increasing order.
RECURSIVE Ascending(_)
Ascending(S) ==
    IF S = {} THEN <<>>
    ELSE LET lo == CHOOSE x \in S : \A y \in S : x <= y IN <<lo>> \o Ascending(S \ {lo})

\* ChangeManager(): last_run is 0 and the three buffers are empty
\* (test_changemanager.py:12-16); index is the index of the data seen by the
\* last update.
NewChangeManager ==
    [last_run |-> 0, index |-> {}, created |-> <<>>, updated |-> <<>>, deleted |-> <<>>]

\* A ChangeManager.update that buffers every row of the data as created.
cm_update_all_created(cm, now, index, touched) ==
    [last_run |-> now, index |-> index,
     created |-> cm.created \o Ascending(index),
     updated |-> cm.updated \o Ascending((touched \cap cm.index) \cap index),
     deleted |-> cm.deleted \o Ascending(cm.index \ index)]

\* ChangeManager.update(now, data): index is the index of data and
\* touched the rows whose update column is greater than last_run. The rows
\* that are new in the index are buffered as created, the rows gone from it
\* as deleted, the touched rows that were there already as updated.
cm_update(cm, now, index, touched) ==
    [last_run |-> now, index |-> index,
     created |-> cm.created \o Ascending(index \ cm.index),
     updated |-> cm.updated \o Ascending((touched \cap cm.index) \cap index),
     deleted |-> cm.deleted \o Ascending(cm.index \ index)]

\* What next_created, next_updated and next_deleted return for a buffer
\* that is read whole: slice(start, stop) when the positions are contiguous,
\* the positions themselves otherwise.
next_all(buffer) ==
    IF buffer # <<>> /\ \A i \in 1..(Len(buffer) - 1) : buffer[i + 1] = buffer[i] + 1
    THEN [slice |-> TRUE, start |-> buffer[1], stop |-> buffer[Len(buffer)] + 1, ids |-> <<>>]
    ELSE [slice |-> FALSE, start |-> 0, stop |-> 0, ids |-> buffer]

\* Nothing has been read from a buffer yet.
NoSlice == [slice |-> FALSE, start |-> 0, stop |-> 0, ids |-> <<>>]

\* A new ChangeManager and an empty table: rows is the number of rows
\* appended so far, index the index of the table, touched the rows written
\* since the last update, prev what the manager was before its last update
\* and written the rows that were touched when it was made.
ChangesInit ==
    /\ ModulesInit
    /\ DataflowInit
    /\ SchedulerInit
    /\ Registered(Names)
    /\ call_in = [fn |-> "changes"]
    /\ call_out = [fn |-> "changes", op |-> "new", cm |-> NewChangeManager,
                   prev |-> NewChangeManager, rows |-> 0, index |-> {}, touched |-> {},
                   written |-> {},
                   next_created |-> NoSlice, next_deleted |-> NoSlice]
    /\ TimingInit

\* The frame of a step on the table and its ChangeManager.
ChangesFrame == UNCHANGED <<call_in, dfvars, svars, tvars>>

\* df.append(..., ignore_index=True): a row is appended at the next position
\* (test_changemanager.py:28-29).
TableAppend ==
    /\ call_in.fn = "changes"
    /\ call_out.rows < MaxRows
    /\ call_out' = [call_out EXCEPT !.op = "append",
                                    !.index = @ \cup {call_out.rows},
                                    !.touched = @ \cup {call_out.rows},
                                    !.rows = @ + 1]
    /\ ChangesFrame

\* df[df.index != p]: row p is removed (test_changemanager.py:45).
TableDelete(p) ==
    /\ call_in.fn = "changes"
    /\ p \in call_out.index
    /\ call_out' = [call_out EXCEPT !.op = "delete", !.index = @ \ {p},
                                    !.touched = @ \ {p}]
    /\ ChangesFrame

\* A row of the table is written and its update column set to the next
\* run_number.
TableWrite(p) ==
    /\ call_in.fn = "changes"
    /\ p \in call_out.index
    /\ p \notin call_out.touched
    /\ call_out' = [call_out EXCEPT !.op = "write", !.touched = @ \cup {p}]
    /\ ChangesFrame

\* cm.update(now, df) with the next run_number, the consumer having read
\* the buffers of the previous update (test_changemanager.py:21, 30, 39, 46).
CallUpdate ==
    /\ call_in.fn = "changes"
    /\ call_out.cm.last_run < MaxUpdates
    /\ call_out.cm.created = <<>> /\ call_out.cm.updated = <<>> /\ call_out.cm.deleted = <<>>
    /\ call_out' = [call_out EXCEPT !.op = "update",
                                    !.prev = call_out.cm,
                                    !.cm = cm_update(call_out.cm, call_out.cm.last_run + 1,
                                                     call_out.index, call_out.touched),
                                    !.written = call_out.touched,
                                    !.touched = {},
                                    !.next_created = NoSlice,
                                    !.next_deleted = NoSlice]
    /\ ChangesFrame

\* cm.next_created(): the created buffer is returned and emptied
\* (test_changemanager.py:23).
CallNextCreated ==
    /\ call_in.fn = "changes"
    /\ call_out.cm.created # <<>>
    /\ call_out' = [call_out EXCEPT !.op = "next_created",
                                    !.next_created = next_all(call_out.cm.created),
                                    !.cm.created = <<>>]
    /\ ChangesFrame

\* cm.next_updated()
CallNextUpdated ==
    /\ call_in.fn = "changes"
    /\ call_out.cm.updated # <<>>
    /\ call_out' = [call_out EXCEPT !.op = "next_updated", !.cm.updated = <<>>]
    /\ ChangesFrame

\* cm.next_deleted() (test_changemanager.py:50)
CallNextDeleted ==
    /\ call_in.fn = "changes"
    /\ call_out.cm.deleted # <<>>
    /\ call_out' = [call_out EXCEPT !.op = "next_deleted",
                                    !.next_deleted = next_all(call_out.cm.deleted),
                                    !.cm.deleted = <<>>]
    /\ ChangesFrame

ChangesNext ==
    \/ TableAppend
    \/ \E p \in 0..(MaxRows - 1) : TableDelete(p)
    \/ \E p \in 0..(MaxRows - 1) : TableWrite(p)
    \/ CallUpdate
    \/ CallNextCreated
    \/ CallNextUpdated
    \/ CallNextDeleted

ChangesSpec == ChangesInit /\ [][ChangesNext]_vars

\* BaseScheduler.start(tick_proc) (scheduler_base.py:315-323): a tick_proc
\* that is given replaces the tick callbacks; with None they are kept.
start_tick_procs(tick_procs, tick_proc) ==
    IF tick_proc # None THEN <<tick_proc>> ELSE tick_procs

\* A new scheduler: no tick callback, no run in progress. kind is the call
\* that started the last run, by_host tells that the host called stop()
\* during it, runs counts its module runs.
StartsInit ==
    /\ ModulesInit
    /\ DataflowInit
    /\ SchedulerInit
    /\ Registered(Names)
    /\ call_in = [fn |-> "starts"]
    /\ call_out = [fn |-> "starts", tick_procs |-> <<>>, kind |-> "none", running |-> FALSE,
                   stopped |-> FALSE, by_host |-> FALSE, runs |-> 0, starts |-> 0,
                   stepped |-> FALSE]
    /\ TimingInit

\* BaseScheduler.run entered from start (scheduler_base.py:368-370).
RunEntered(kind, tick_proc) ==
    /\ call_in.fn = "starts"
    /\ ~call_out.running
    /\ call_out.starts < MaxStarts
    /\ call_out' = [call_out EXCEPT
                       !.tick_procs = start_tick_procs(call_out.tick_procs, tick_proc),
                       !.kind = kind, !.running = TRUE, !.stopped = FALSE,
                       !.by_host = FALSE, !.runs = 0, !.starts = @ + 1,
                       !.stepped = @ \/ kind = "step"]
    /\ ChangesFrame

\* BaseScheduler.step: start(tick_proc=self._step_proc)
HostStep == RunEntered("step", "_step_proc")

\* BaseScheduler.start() without a tick_proc
HostStart == RunEntered("start", None)

\* BaseScheduler.start(tick_proc=t) with a callback of the host that does
\* nothing
HostStartTick == RunEntered("start_tick", "t")

\* BaseScheduler.stop called by the host during a run
HostStop ==
    /\ call_in.fn = "starts"
    /\ call_out.running
    /\ ~call_out.stopped
    /\ call_out' = [call_out EXCEPT !.stopped = TRUE, !.by_host = TRUE]
    /\ ChangesFrame

\* One iteration of _run_loop that runs a module (scheduler_base.py:395-398):
\* the tick callbacks are called, _step_proc calling stop(), then the module
\* is run.
TickAndRun ==
    /\ call_in.fn = "starts"
    /\ call_out.running
    /\ ~call_out.stopped
    /\ call_out.runs < MaxRuns
    /\ call_out' = [call_out EXCEPT
                       !.stopped = "_step_proc" \in SeqToSet(call_out.tick_procs),
                       !.runs = @ + 1]
    /\ ChangesFrame

\* _next_module finds _stopped set and run() returns
\* (scheduler_base.py:410, 377-382).
RunReturns ==
    /\ call_in.fn = "starts"
    /\ call_out.running
    /\ call_out.stopped
    /\ call_out' = [call_out EXCEPT !.running = FALSE]
    /\ ChangesFrame

StartsNext ==
    \/ HostStep
    \/ HostStart
    \/ HostStartTick
    \/ HostStop
    \/ TickAndRun
    \/ RunReturns

StartsSpec == StartsInit /\ [][StartsNext]_vars

\* The row ids the producer of the 'table' slot of a Bisect or a RangeQuery
\* emits.
RowIds == 1..MaxCount

\* The other input slots of the two modules: the tables whose last row gives
\* the limits of the selection (bisectmod.py:90-92, range_query.py:220-254).
SideSlots(kind) ==
    IF kind = "Bisect" THEN {"limit"} ELSE {"lower", "upper", "min", "max"}

\* The slots whose changes mark the limits as changed.
LimitSlots(kind) == IF kind = "Bisect" THEN {"limit"} ELSE {"lower", "upper"}

\* Bisect.run_step (bisectmod.py:97-150) and RangeQuery.run_step
\* (range_query.py:194-289) on the state s of the module and of its slots:
\* created, updated and deleted are the row ids buffered on the 'table' slot,
\* read whole by next(step_size); side_len is the length of the table of
\* every other slot and side_new the slots with buffered rows; consumed are
\* the ids read from the 'table' slot so far and handed those passed to
\* start or resume of the implementation. adjusted tells that RangeQuery
\* replaced a limit that was out of the range min..max.
select_run_step(kind, s, adjusted) ==
    LET taken == (s.created \cup s.updated) \cup s.deleted
        steps == Cardinality(s.created) + Cardinality(s.updated) + Cardinality(s.deleted)
        read == [s EXCEPT !.created = {}, !.updated = {}, !.deleted = {},
                          !.consumed = @ \cup taken]
        sides == [read EXCEPT !.side_new = @ \ SideSlots(kind)]
        changed == (s.side_new \cap LimitSlots(kind)) # {}
        blocked == [next_state |-> state_blocked, steps_run |-> 0]
        applied(t) == [t EXCEPT !.handed = @ \cup taken, !.is_started = TRUE,
                                !.ret = [next_state |-> state_blocked, steps_run |-> steps]]
    IN
    IF kind = "Bisect"
    THEN IF steps = 0 THEN [read EXCEPT !.ret = blocked]
         ELSE IF s.side_len["limit"] = 0 THEN [sides EXCEPT !.ret = blocked]
         ELSE applied(sides)
    ELSE IF s.side_len["lower"] = 0 \/ s.side_len["upper"] = 0
         THEN [sides EXCEPT !.ret = blocked]
         ELSE IF s.side_len["min"] = 0 \/ s.side_len["max"] = 0
         THEN [sides EXCEPT !.ret = blocked]
         ELSE IF steps = 0 /\ ~(changed \/ adjusted) THEN [sides EXCEPT !.ret = blocked]
         ELSE applied(sides)

\* A Bisect or a RangeQuery whose slots are connected to empty tables and
\* that has not run yet; rows are the rows of the input table.
SelectInit ==
    /\ ModulesInit
    /\ DataflowInit
    /\ SchedulerInit
    /\ Registered(Names)
    /\ call_in \in {[fn |-> "select", kind |-> k] : k \in {"Bisect", "RangeQuery"}}
    /\ call_out = [fn |-> "select", op |-> "new", rows |-> {}, created |-> {},
                   updated |-> {}, deleted |-> {},
                   side_len |-> [t \in SideSlots(call_in.kind) |-> 0], side_new |-> {},
                   is_started |-> FALSE, consumed |-> {}, handed |-> {},
                   ret |-> [next_state |-> state_created, steps_run |-> 0]]
    /\ TimingInit

\* The producer of the 'table' slot appends row r.
EmitCreated(r) ==
    /\ call_in.fn = "select"
    /\ r \notin call_out.rows
    /\ r \notin call_out.consumed
    /\ r \notin call_out.deleted
    /\ call_out' = [call_out EXCEPT !.op = "emit", !.rows = @ \cup {r},
                                    !.created = @ \cup {r}]
    /\ ChangesFrame

\* The producer of the 'table' slot writes row r, which the consumer has
\* read already.
EmitUpdated(r) ==
    /\ call_in.fn = "select"
    /\ r \in call_out.rows
    /\ r \notin call_out.created
    /\ r \notin call_out.updated
    /\ call_out' = [call_out EXCEPT !.op = "emit", !.updated = @ \cup {r}]
    /\ ChangesFrame

\* The producer of the 'table' slot removes row r, which the consumer has
\* read already.
EmitDeleted(r) ==
    /\ call_in.fn = "select"
    /\ r \in call_out.rows
    /\ r \notin call_out.created
    /\ call_out' = [call_out EXCEPT !.op = "emit", !.rows = @ \ {r},
                                    !.updated = @ \ {r}, !.deleted = @ \cup {r}]
    /\ ChangesFrame

\* The producer of side slot t appends the row that holds a limit.
EmitSide(t) ==
    /\ call_in.fn = "select"
    /\ t \in SideSlots(call_in.kind)
    /\ call_out.side_len[t] = 0
    /\ call_out' = [call_out EXCEPT !.op = "emit", !.side_len[t] = 1,
                                    !.side_new = @ \cup {t}]
    /\ ChangesFrame

\* Module.run calls run_step of the module.
CallSelectRunStep ==
    /\ call_in.fn = "select"
    /\ call_out.op # "run_step"
    /\ \E adjusted \in BOOLEAN :
          call_out' = [select_run_step(call_in.kind, call_out, adjusted)
                          EXCEPT !.op = "run_step"]
    /\ ChangesFrame

SelectNext ==
    \/ \E r \in RowIds : EmitCreated(r)
    \/ \E r \in RowIds : EmitUpdated(r)
    \/ \E r \in RowIds : EmitDeleted(r)
    \/ \E t \in {"limit", "lower", "upper", "min", "max"} : EmitSide(t)
    \/ CallSelectRunStep

SelectSpec == SelectInit /\ [][SelectNext]_vars

\* The callbacks of the host program: t is registered with on_tick, a and b
\* with on_tick_once; each of them does nothing, raises an exception, or
\* registers a callback of its own with on_tick_once.
Callbacks == {"t", "a", "b"}

Behaviours == {"none", "raise", "register"}

\* The callback that x registers with on_tick_once; it does nothing.
RegisteredBy(x) == CASE x = "t" -> "by_t" [] x = "a" -> "by_a" [] x = "b" -> "by_b"

\* BaseScheduler.on_tick_once called from inside callback x, when x does so.
on_tick_once(beh, x, procs) ==
    IF x \in Callbacks /\ beh[x] = "register" THEN Append(procs, RegisteredBy(x)) ELSE procs

\* The second loop of _run_tick_procs (scheduler_base.py:512-517) from index
\* i of the list it iterates on: iterated is that list, procs is the list that
\* _tick_once_procs names, which is the iterated one as long as aliased holds;
\* the attribute is bound to a new empty list after every callback.
RECURSIVE tick_once_loop(_, _, _, _, _, _)
tick_once_loop(beh, iterated, i, procs, aliased, calls) ==
    IF i > Len(iterated)
    THEN [calls |-> calls, tick_once_procs |-> IF aliased THEN iterated ELSE procs]
    ELSE LET x == iterated[i] IN
         tick_once_loop(beh,
                        IF aliased THEN on_tick_once(beh, x, iterated) ELSE iterated,
                        i + 1, <<>>, FALSE, Append(calls, x))

\* The first loop of _run_tick_procs (scheduler_base.py:506-511): the tick
\* callbacks are called, their exceptions suppressed.
RECURSIVE tick_loop(_, _, _, _, _)
tick_loop(beh, tick_procs, i, procs, calls) ==
    IF i > Len(tick_procs)
    THEN [calls |-> calls, tick_once_procs |-> procs]
    ELSE tick_loop(beh, tick_procs, i + 1, on_tick_once(beh, tick_procs[i], procs),
                   Append(calls, tick_procs[i]))

\* BaseScheduler._run_tick_procs: the callbacks called, in order, and the
\* list _tick_once_procs it leaves.
run_tick_procs(beh, tick_procs, procs) ==
    LET first == tick_loop(beh, tick_procs, 1, procs, <<>>) IN
    tick_once_loop(beh, first.tick_once_procs, 1, first.tick_once_procs, TRUE, first.calls)

\* The host program has registered its callbacks and the loop is about to
\* make its first tick.
TickInit ==
    /\ ModulesInit
    /\ DataflowInit
    /\ SchedulerInit
    /\ Registered(Names)
    /\ call_in \in {[fn |-> "tick", beh |-> b, tick_procs |-> tp, tick_once_procs |-> q] :
                         b \in [Callbacks -> Behaviours],
                         tp \in {<<>>, <<"t">>},
                         q \in {<<>>, <<"a">>, <<"b">>, <<"a", "b">>, <<"b", "a">>}}
    /\ call_out = [fn |-> "tick", ticks |-> 0, calls |-> <<>>,
                   tick_once_procs |-> call_in.tick_once_procs]
    /\ TimingInit

\* _run_loop calls _run_tick_procs before a module run (scheduler_base.py:397).
CallRunTickProcs ==
    /\ call_in.fn = "tick"
    /\ call_out.ticks < MaxTickCalls
    /\ LET r == run_tick_procs(call_in.beh, call_in.tick_procs, call_out.tick_once_procs) IN
       call_out' = [fn |-> "tick", ticks |-> call_out.ticks + 1,
                    calls |-> call_out.calls \o r.calls,
                    tick_once_procs |-> r.tick_once_procs]
    /\ UNCHANGED <<call_in, dfvars, svars, tvars>>

TickSpec == TickInit /\ [][CallRunTickProcs]_vars

\* What a call of run_step does: it returns a result with one of the
\* next_state values _return_run_step lets through, or it raises.
StepOutcomes ==
    {[kind |-> "return", next_state |-> r] : r \in StepStates}
        \cup {[kind |-> "StopIteration"], [kind |-> "Exception"]}

\* The step loop of Module.run (module.py:714-771) over the outcomes of its
\* run_step calls, from call i on: the next_state, the caught exception and
\* the calls made on the tracer; the loop is left on time when the outcomes
\* are used up.
RECURSIVE step_loop(_, _, _, _)
step_loop(outcomes, i, ns, events) ==
    IF i > Len(outcomes)
    THEN [next_state |-> ns, exception |-> FALSE, events |-> events]
    ELSE LET o == outcomes[i]
             before == Append(events, "tracer.before_run_step")
         IN
         IF o.kind = "StopIteration"
         THEN [next_state |-> state_zombie, exception |-> FALSE,
               events |-> Append(before, "tracer.after_run_step")]
         ELSE IF o.kind = "Exception"
         THEN [next_state |-> state_zombie, exception |-> TRUE,
               events |-> before \o <<"tracer.exception", "tracer.after_run_step">>]
         ELSE IF o.next_state # state_ready
         THEN [next_state |-> o.next_state, exception |-> FALSE,
               events |-> before \o <<"tracer.after_run_step", "tracer.run_stopped">>]
         ELSE step_loop(outcomes, i + 1, o.next_state,
                        Append(before, "tracer.after_run_step"))

\* A Module.run that raises the RuntimeError as soon as the loop is left.
run_tail_raise_first(ns, exc, events) ==
    IF exc THEN [err |-> "RuntimeError", state |-> ns, events |-> events]
    ELSE [err |-> "none", state |-> ns,
          events |-> events \o (IF ns = state_zombie THEN <<"tracer.terminated">> ELSE <<>>)
                            \o <<"tracer.end_run", "end_run">>]

\* Module.run after its step loop (module.py:772-782): the state becomes
\* next_state, tracer.terminated for a Zombie, tracer.end_run, then _stop,
\* which asserts the state is not Running and calls end_run, and at last the
\* RuntimeError for a caught exception.
run_tail(ns, exc, events) ==
    LET ev == events \o (IF ns = state_zombie THEN <<"tracer.terminated">> ELSE <<>>)
                    \o <<"tracer.end_run">>
    IN IF ns = state_running
       THEN [err |-> "AssertionError", state |-> ns, events |-> ev]
       ELSE [err |-> IF exc THEN "RuntimeError" ELSE "none", state |-> ns,
             events |-> Append(ev, "end_run")]

\* Module.run (module.py:690-782) of a module in state st whose
\* _update_params ends as params and whose run_step calls end as outcomes:
\* the exception raised, the state left and the calls made on the tracer and
\* on the callbacks of the module.
module_run(st, params, outcomes) ==
    IF st = state_running
    THEN [err |-> "ProgressiveError", state |-> st, events |-> <<>>]
    ELSE IF params # "none"
    THEN [err |-> params, state |-> state_running, events |-> <<>>]
    ELSE LET l == step_loop(outcomes, 1, st, <<"start_run", "tracer.start_run">>)
         IN run_tail(l.next_state, l.exception, l.events)

\* The sequences of at most n outcomes.
RECURSIVE OutcomeSeqs(_)
OutcomeSeqs(n) ==
    IF n = 0 THEN {<<>>}
    ELSE OutcomeSeqs(n - 1)
            \cup {Append(q, o) : q \in {x \in OutcomeSeqs(n - 1) : Len(x) = n - 1},
                                 o \in StepOutcomes}

\* A module in any state is about to be run.
ModuleRunInit ==
    /\ ModulesInit
    /\ DataflowInit
    /\ SchedulerInit
    /\ Registered(Names)
    /\ call_in \in {[fn |-> "run", state |-> st, params |-> pr, outcomes |-> q] :
                         st \in state_created..state_invalid,
                         pr \in {"none", "NotImplementedError"},
                         q \in OutcomeSeqs(MaxSteps)}
    /\ call_out = NoArg
    /\ TimingInit

\* Module.run is called and returns or raises.
CallModuleRun ==
    /\ call_in.fn = "run"
    /\ call_out = NoArg
    /\ call_out' = [fn |-> "run",
                    result |-> module_run(call_in.state, call_in.params, call_in.outcomes)]
    /\ UNCHANGED <<call_in, dfvars, svars, tvars>>

ModuleRunSpec == ModuleRunInit /\ [][CallModuleRun]_vars

\* ------------------------------------------------------- Dataflow: checks

\* The names that are a key of one of the three maps of the Dataflow.
UsedNames(maps) == maps[1] \cup DOMAIN maps[2] \cup DOMAIN maps[3]

\* The entries of a fan-out list, as a set.
Entries(slots) == {slots[i] : i \in DOMAIN slots}

\* C2: after any sequence of add_module, add_connection and remove_module
\* calls, failed ones included, a name is a key of modules if and only if it
\* is a key of both inputs and outputs.
C2_ModulesIffInputsAndOutputs ==
    \A m \in Names :
        (m \in df_modules) <=> (m \in DOMAIN df_inputs /\ m \in DOMAIN df_outputs)

\* C3: every binding inputs[c][n] = (p, o) has the entry (c, n) in the list
\* outputs[p][o], and every entry of a fan-out list has its inputs binding.
C3_InputsMatchOutputs ==
    /\ \A c \in DOMAIN df_inputs : \A n \in DOMAIN df_inputs[c] :
           Slot(c, n) \in Entries(fanout(df_outputs, df_inputs[c][n].module, df_inputs[c][n].name))
    /\ \A p \in DOMAIN df_outputs : \A o \in DOMAIN df_outputs[p] :
           \A s \in Entries(df_outputs[p][o]) :
               /\ s.module \in DOMAIN df_inputs
               /\ s.name \in DOMAIN df_inputs[s.module]
               /\ df_inputs[s.module][s.name] = Slot(p, o)

\* No inputs binding and no fan-out entry of a module other than m names m.
NoPeerNames(m) ==
    /\ \A c \in (DOMAIN df_inputs) \ {m} : \A n \in DOMAIN df_inputs[c] :
           df_inputs[c][n].module # m
    /\ \A p \in (DOMAIN df_outputs) \ {m} : \A o \in DOMAIN df_outputs[p] :
           \A s \in Entries(df_outputs[p][o]) : s.module # m

\* C4: remove_module(m) completes for every module m of the dataflow, and
\* afterwards no peer's inputs map or fan-out list names m.
C4_RemoveModuleUnwires ==
    (df_last.op = "remove_module" /\ df_last.member) =>
        (df_last.err = "none" /\ NoPeerNames(df_last.module))

\* C5: an add_connection to an unbound input of a consumer of the dataflow
\* succeeds, and the fan-out list of (producer, output_name) is then the list
\* it was before the call with the consumer's slot appended: k connections
\* from one output give a list of the k consumer slots in call order.
C5_FanOutAppends ==
    (df_last.op = "add_connection" /\ df_last.guard = "none") =>
        /\ df_last.err = "none"
        /\ fanout(df_outputs, df_last.producer, df_last.oname)
               = Append(df_last.before, Slot(df_last.consumer, df_last.iname))

\* C6: an add_connection to an input name that is already bound on the
\* consumer is rejected with an error and leaves modules, inputs and outputs
\* as they were.
C6_BoundInputRejected ==
    [][ (/\ df_calls' = df_calls + 1
         /\ df_last'.op = "add_connection"
         /\ df_last'.consumer \in DOMAIN df_inputs
         /\ df_last'.iname \in DOMAIN df_inputs[df_last'.consumer])
        => (/\ df_last'.err = "AssertionError"
            /\ UNCHANGED <<df_modules, df_inputs, df_outputs>>) ]_dfvars

\* C6 witness: a call was rejected on a bound input of a connected graph.
C6_Witness ==
    /\ df_last.op = "add_connection"
    /\ df_last.guard = "AssertionError"
    /\ df_last.consumer \in df_modules
    /\ df_inputs[df_last.consumer][df_last.iname].module # df_last.producer

\* C7: add_module(m) directly followed by remove_module(m), for a Created m
\* whose name is a key of none of the three maps, completes and leaves
\* modules, inputs and outputs equal to what they were before the two calls.
C7_AddRemoveRoundTrip ==
    (df_trip.phase = "removed" /\ df_trip.module \notin UsedNames(df_trip.maps)) =>
        (df_last.err = "none" /\ Maps = df_trip.maps)

\* C7 witness: the round trip was made on a dataflow holding a connection.
C7_Witness ==
    /\ df_trip.phase = "removed"
    /\ df_trip.module \notin UsedNames(df_trip.maps)
    /\ \E c \in DOMAIN df_inputs : DOMAIN df_inputs[c] # {}

\* The modules with at least one required input descriptor without a slot.
UnboundRequired ==
    {m \in df_modules :
        \E n \in DOMAIN input_descriptors(m) :
            input_descriptors(m)[n] /\ n \notin DOMAIN df_inputs[m]}

\* C8: validate() returns exactly the modules with an unbound required input,
\* leaves the dataflow and the modules as they were, and returns the same
\* result when called again on the unchanged graph.
C8_ValidateResult ==
    [][ (df_calls' = df_calls + 1 /\ df_last'.op = "validate")
        => (/\ UNCHANGED <<df_modules, df_inputs, df_outputs, mstate>>
            /\ df_last'.err = "none"
            /\ df_last'.invalid = UnboundRequired
            /\ (df_last.op = "validate" => df_last'.invalid = df_last.invalid)) ]_dfvars

\* C8 witness: validate() was called twice in a row on a graph with a valid
\* module that has a bound required input and an invalid one.
C8_Witness ==
    /\ df_last.op = "validate"
    /\ df_last.invalid # {}
    /\ \E m \in df_modules \ df_last.invalid : "df" \in DOMAIN df_inputs[m]
    /\ df_last.again

\* ------------------------------------------------------ Scheduler: checks

\* The changes of state the lifecycle of C1 names.
Lifecycle ==
    {<<state_created, state_ready>>, <<state_created, state_blocked>>,
     <<state_ready, state_running>>, <<state_blocked, state_running>>,
     <<state_running, state_ready>>, <<state_running, state_blocked>>,
     <<state_running, state_zombie>>, <<state_zombie, state_terminated>>}

\* The changes of state the specification describes outside the lifecycle:
\* a failed validation (to Invalid), is_ready on a Blocked module whose
\* producers are all over (to Zombie), remove_module (to Zombie).
Documented ==
    {<<state_created, state_invalid>>, <<state_blocked, state_zombie>>}
    \cup {<<s, state_zombie>> : s \in state_created..state_invalid}

\* C1: every module's state is one of the seven values, and every change of
\* a module's state is a transition of the lifecycle (Created to
\* Ready/Blocked, Ready/Blocked to Running, Running to Ready/Blocked/Zombie,
\* Zombie to Terminated); the changes the specification describes for failed
\* validation, is_ready and remove_module are let through as well.
C1_LifecycleOnly ==
    [][\A m \in Names :
          /\ mstate'[m] \in state_created..state_invalid
          /\ mstate'[m] # mstate[m] =>
                <<mstate[m], mstate'[m]>> \in Lifecycle \cup Documented]_vars

\* C9: a call of Dataflow.add_module, add_connection or remove_module made
\* while the scheduler runs leaves run_list, runorder and the state of every
\* module of run_list unchanged.
C9_MutationFrame ==
    [][(running /\ df_calls' # df_calls) =>
          /\ run_list' = run_list
          /\ runorder' = runorder
          /\ \A i \in DOMAIN run_list : mstate'[run_list[i]] = mstate[run_list[i]]]_vars

\* C10: at every moment at most one module of the scheduler is in state
\* Running.
C10_AtMostOneRunning ==
    Cardinality({m \in Names : mstate[m] = state_running}) <= 1

\* Module.run is called by the run loop in this step (it may raise at once).
RunCalled == pc = "cond" /\ pc' \in {"step", "idle"}

\* run_step is called in this step.
RunStepCalled == pc = "step" /\ pc' = "in_step"

\* C11 as stated: run_number never decreases, and a call of run_step is never
\* passed the run_number an earlier call of run_step was passed.
C11_StepNumbersUnique ==
    [][/\ run_number' >= run_number
       /\ RunStepCalled => run_number # last_step_run]_vars

\* C11, amended: run_number never decreases and changes only when
\* Module.run is called, every call of Module.run is passed a run_number
\* greater than that of every earlier call, and every call of run_step is
\* passed the run_number of the Module.run that makes it.
C11_RunNumbersUnique ==
    [][/\ run_number' >= run_number
       /\ run_number' # run_number => RunCalled
       /\ RunCalled => run_number' > run_number
       /\ RunStepCalled => last_step_run' = run_number /\ run_number > 0]_vars

\* The second Module.run of a behaviour is inside its second call of
\* run_step or a later one: the first call returned Ready.
C11_Witness ==
    pc = "in_step" /\ run_number >= 2 /\ mstate[cur] = state_ready

\* The modules bound to the required input slots of m.
RequiredProducers(m) ==
    {in_slots[m][n] : n \in {k \in DOMAIN in_slots[m] : input_descriptors(m)[k]}} \ {None, m}

\* _update_modules commits the staged modules in this step and the loop goes on.
Committed ==
    /\ pc \in {"next", "resume"}
    /\ new_modules_ids # {}
    /\ new_modules_ids' = {}
    /\ pc' # "idle"

\* C12: after every commit the order of a module is greater than the order
\* of every module bound to one of its required inputs, and whenever the loop
\* runs a module, every module bound to one of its required inputs sits
\* before it in run_list: no consumer runs before its producers in a pass.
C12_ConsumersAfterProducers ==
    [][/\ Committed =>
            \A i \in DOMAIN runorder'.order : \A p \in RequiredProducers(runorder'.order[i]) :
                \E j \in 1..(i - 1) : runorder'.order[j] = p
       /\ RunCalled =>
            /\ run_list[run_index] = cur
            /\ \A p \in RequiredProducers(cur) :
                   \A j \in DOMAIN run_list : run_list[j] = p => j < run_index]_vars

\* C14: while the scheduler is in interaction mode (has_input() true),
\* Module.run is invoked only for modules whose name is in module_selection.
C14_OnlySelectedRun ==
    [][(RunCalled /\ has_input(module_selection)) => cur \in module_selection.names]_vars

\* C15: within one interaction window the sum of the quanta that fix_quantum
\* grants to the modules of the selection is at most interaction_latency.
C15_QuantaWithinLatency ==
    granted <= interaction_latency

\* _hibernate_cond.wait() is entered in this step.
WaitEntered == pc = "sleep" /\ pc' = "wait"

\* C16: the run loop waits on the hibernate condition only in a state where
\* no module of run_list is a data input, every module of run_list is
\* Blocked, some module of run_list is an input module, and keep_running is 0.
C16_HibernateOnlyWhenIdle ==
    [][WaitEntered =>
          /\ no_more_data(run_list)
          /\ all_blocked(run_list, mstate)
          /\ is_waiting_for_input(run_list)
          /\ keep_running = 0]_vars

\* BaseScheduler.is_running
is_running == running

\* BaseScheduler.is_terminated, over the modules mods in states st.
is_terminated(mods, st) == \A m \in mods : st[m] = state_terminated

\* run() returns in this step, its loop ended by stop().
RunReturnsAfterStop ==
    /\ pc \in {"next", "resume"}
    /\ stopped
    /\ pc' = "idle"
    /\ sched_err' = "none"

\* C18: after stop() has been called on a running scheduler and run() has
\* returned, is_running() is false and is_terminated() is true.
C18_StoppedIsTerminated ==
    [][RunReturnsAfterStop => (~running' /\ is_terminated(sched_modules', mstate'))]_vars

\* The host calls one of for_input, stop, add_module, remove_module in this step.
HostCalled == host_calls' # host_calls \/ constructed' # constructed

\* C19: a loop that waits on the hibernate condition is woken by each of
\* for_input, stop, add_module and remove_module: the call notifies it.
C19_EveryCallWakes ==
    [][(pc = "wait" /\ HostCalled) => notified']_vars

\* Module.run raises the RuntimeError of an exception of run_step in this step.
StepFailed == pc = "in_step" /\ sched_err' = "RuntimeError"

\* C24: when run_step of a module raises an exception during the run loop,
\* only that module is killed (Zombie) and the scheduler continues with the
\* next module of run_list: the run loop is not ended by the error.
C24_LoopSurvivesStepError ==
    [][StepFailed => (mstate'[cur] = state_zombie /\ pc' = "resume")]_vars

\* _update_modules commits the staged modules in this step and returns.
CommitDone ==
    /\ pc \in {"next", "resume"}
    /\ ~stopped
    /\ new_modules_ids # {}
    /\ new_modules_ids' = {}
    /\ sched_err' = "none"

\* C25: for every commit of a staged module X: if the required inputs of X
\* (and of the other modules) are bound, run_list contains X with an order
\* assigned; if some required input of X is unbound, X ends in state Invalid
\* and is not in run_list; and a module with an unbound required input is
\* never run.
C25_CommitValidates ==
    [][/\ CommitDone =>
            \A x \in new_modules_ids :
                IF validate_inputs(in_slots, x)
                THEN (\A m \in sched_modules : validate_inputs(in_slots, m)) =>
                        (x \in SeqToSet(run_list') /\ x \in SeqToSet(runorder'.order))
                ELSE mstate'[x] = state_invalid /\ x \notin SeqToSet(run_list')
       /\ RunCalled => validate_inputs(in_slots, cur)]_vars

\* _update_modules is about to commit staged modules whose required inputs
\* form a cycle: order_modules raises the ValueError of its second toposort.
CycleCommit ==
    /\ pc \in {"next", "resume"}
    /\ ~stopped
    /\ new_modules_ids # {}
    /\ new_modules_ids \subseteq sched_modules
    /\ order_modules(sched_modules, mstate, in_slots, reachability).err = "ValueError"

\* run_list as the commit of this step finds it: the end of a round has
\* dropped the terminated modules.
RunListBefore ==
    IF pc = "resume" /\ run_index >= Len(run_list)
    THEN end_of_modules(module_selection, run_list, mstate).run_list
    ELSE run_list

\* C26: when a commit finds a dependency cycle that persists with the required
\* inputs only, the scheduler does not adopt the new graph: run_list after the
\* commit equals run_list before the commit and the run loop keeps running
\* the previous modules.
C26_CycleKeepsRunList ==
    [][CycleCommit =>
          /\ run_list' = RunListBefore
          /\ sched_err' = "none"
          /\ RunListBefore # <<>> => pc' = "body"]_vars

\* C27: once the state of a module is Invalid it never changes again, whatever
\* connections, commits or validations happen later (a step that removes a
\* module is left aside).
C27_InvalidAbsorbing ==
    [][host_calls' = host_calls =>
          \A m \in Names : mstate[m] = state_invalid => mstate'[m] = state_invalid]_vars

\* C29: add_module called from another thread at any point of a commit is
\* safe: the commit never looks up a staged name that is no key of the
\* modules map yet, so that no step of the loop ends in a KeyError while a
\* module is being added.
C29_CommitSeesAddedModules ==
    [][(\E m \in Names : Staging(m)) => sched_err' # "KeyError"]_vars

\* _next_module yields a module in this step, having found slots marked
\* updated and no new module staged.
YieldAfterSlotsUpdated ==
    /\ pc \in {"next", "resume"}
    /\ pc' = "body"
    /\ slots_updated
    /\ new_modules_ids = {}

\* C31: a slots_updated notification with no new module staged triggers one
\* replanning in _next_module, which clears the trigger; and a generator
\* resumed in the middle of a pass, with nothing staged and no change of
\* the interaction mode, yields the module after the one it yielded last,
\* so that every module of run_list is yielded in each pass.
C31_SlotsUpdatedReplansOnce ==
    [][/\ YieldAfterSlotsUpdated => ~slots_updated'
       /\ (/\ pc = "resume" /\ pc' = "body"
           /\ run_index < Len(run_list)
           /\ new_modules_ids = {}
           /\ input_mode = has_input(module_selection))
          => (run_index' = run_index + 1 /\ cur' = run_list[run_index + 1])]_vars

\* The pipeline is over: both modules are Terminated, run_list is empty and
\* run() has returned.
PipelineDone ==
    /\ mstate["inp"] = state_terminated
    /\ mstate["flt"] = state_terminated
    /\ run_list = <<>>
    /\ pc = "idle"
    /\ ~running

\* The runs of the model are used up while the consumer still asks to run.
RunsUsedUp == run_number = MaxRuns /\ mstate["flt"] \in {state_ready, state_running}

\* C34: in the pipeline inp -> flt, once the source is Zombie, and as long
\* as no run ends in an error, the source becomes Terminated and the consumer
\* Terminated after it, both are dropped from run_list and the loop ends.
C34_PipelineTerminates ==
    /\ (mstate["inp"] = state_zombie) ~> (PipelineDone \/ sched_err # "none" \/ RunsUsedUp)
    /\ [][\A m \in PipelineNames :
              (mstate'[m] = state_terminated /\ mstate[m] # state_terminated)
                  => mstate[m] = state_zombie]_vars

\* The pipeline is over without an error and with runs left, the consumer
\* having run after the source.
C34_Witness == PipelineDone /\ sched_err = "none" /\ run_number = 2

\* C38: the scheduler never calls Module.run on a module whose state is
\* Zombie, Terminated or Invalid at the time of the call (the state run()
\* reads at its entry), in normal mode and in interaction mode alike, and a
\* Terminated module never becomes Running again.
C38_DeadModulesNeverRun ==
    [][/\ (pc = "cond" /\ pc' = "step") =>
              next_state' \notin {state_zombie, state_terminated, state_invalid}
       /\ \A m \in Names :
              mstate[m] = state_terminated => mstate'[m] # state_running]_vars

\* C17: the notification of stop() is never lost: a loop that waits on the
\* hibernate condition after stop() was called has been notified, so that it
\* wakes up, exits and run() returns.
C17_StopNotificationKept ==
    (pc = "wait" /\ stopped) => notified

\* ------------------------------------------- checks of the functions alone

\* _compute_reachability has returned a map R.
ReachDone == call_out.fn = "reach" /\ call_out.result.err = "none"

\* There is a path of at most n producer -> consumer edges from u to v.
RECURSIVE PathWithin(_, _, _, _)
PathWithin(deps, u, v, n) ==
    \/ u = v
    \/ n > 0 /\ \E x \in DOMAIN deps : u \in deps[x] /\ PathWithin(deps, x, v, n - 1)

\* A visualization of the map can be reached from u, u itself included.
ReachesVis(deps, u) ==
    \E v \in DOMAIN deps : is_visualization(v) /\ PathWithin(deps, u, v, Cardinality(Names))

\* R is transitively closed.
Transitive(R) ==
    \A u \in DOMAIN R : \A v \in R[u] \cap DOMAIN R : R[v] \subseteq R[u]

\* C13 as stated: after a reachability computation u is in R[u] for every
\* module u of the dependency map, and R is transitively closed.
C13_ReflexiveTransitive ==
    ReachDone =>
        LET R == call_out.result.reachability IN
        /\ DOMAIN R = DOMAIN call_in.deps
        /\ \A u \in DOMAIN R : u \in R[u]
        /\ Transitive(R)

\* C13, amended: after a reachability computation R is transitively closed,
\* and u is in R[u] exactly for the modules u of the dependency map from
\* which a visualization can be reached.
C13_TransitiveReflexiveToVis ==
    ReachDone =>
        LET R == call_out.result.reachability IN
        /\ DOMAIN R = DOMAIN call_in.deps
        /\ \A u \in DOMAIN R : u \in R[u] <=> ReachesVis(call_in.deps, u)
        /\ Transitive(R)

\* A computation over a chain inp -> flt -> vis: R[inp] holds flt and vis.
C13_Witness ==
    /\ ReachDone
    /\ DOMAIN call_in.deps = Names
    /\ call_in.deps["flt"] = {"inp"}
    /\ call_in.deps["vis"] = {"flt"}
    /\ call_in.deps["inp"] = {}
    /\ call_out.result.reachability["inp"] = Names

\* _return_run_step has returned a step result.
StepResultReturned == call_out.fn = "return_run_step" /\ call_out.result.err = "none"

\* C20: every step result returned by _return_run_step has creates <= updates,
\* and when it was called with creates > 0 and updates = 0 the result has
\* updates = creates.
C20_CreatesWithinUpdates ==
    StepResultReturned =>
        LET ret == call_out.result.ret IN
        /\ ret.creates <= ret.updates
        /\ ret.creates = call_in.creates
        /\ (call_in.creates > 0 /\ call_in.updates = 0) => ret.updates = call_in.creates

\* A result returned for creates > 0 and updates = 0.
C20_Witness ==
    /\ StepResultReturned
    /\ call_in.creates > 0
    /\ call_in.updates = 0
    /\ call_out.result.ret.updates = call_in.creates

\* _return_run_step has been called and has returned or raised.
StepResultCalled == call_out.fn = "return_run_step"

\* C21 as stated: whenever a step reports creates > updates the step is
\* rejected with an error and no result is returned.
C21_MoreCreatesRejected ==
    (StepResultCalled /\ call_in.creates > call_in.updates) => call_out.result.err # "none"

\* C21, amended: a step that reports creates > updates with updates # 0 is
\* rejected with an error and no result is returned; with updates = 0 and an
\* acceptable next_state the result is returned with updates set to creates.
C21_RejectedUnlessNoUpdates ==
    (StepResultCalled /\ call_in.creates > call_in.updates) =>
        IF call_in.updates # 0
        THEN call_out.result.err \in {"AssertionError", "ProgressiveError"}
        ELSE IF call_in.next_state \in StepStates
        THEN /\ call_out.result.err = "none"
             /\ call_out.result.ret.updates = call_in.creates
             /\ call_out.result.ret.creates = call_in.creates
        ELSE call_out.result.err = "AssertionError"

\* A step that reported more creates than its non-zero updates was rejected
\* with ProgressiveError.
C21_Witness ==
    /\ StepResultCalled
    /\ call_in.updates > 0
    /\ call_in.creates > call_in.updates
    /\ call_out.result.err = "ProgressiveError"

\* C22: a step result is accepted only if its next_state is Ready, Blocked or
\* Zombie; any other value is rejected with an AssertionError.
C22_OnlyReadyBlockedZombie ==
    StepResultCalled =>
        IF call_in.next_state \in {state_ready, state_blocked, state_zombie}
        THEN call_out.result.err # "AssertionError"
        ELSE call_out.result.err = "AssertionError"

\* Module.run has been called on a module that was not Running and whose
\* parameters were updated, and has returned or raised.
ModuleRan ==
    /\ call_out.fn = "run"
    /\ call_in.state # state_running
    /\ call_in.params = "none"

\* The run_step call that left the step loop of the run ended as kind k: the
\* calls before it returned Ready.
LoopLeftBy(k) ==
    \E i \in DOMAIN call_in.outcomes :
        /\ call_in.outcomes[i].kind = k
        /\ \A j \in 1..(i - 1) :
               /\ call_in.outcomes[j].kind = "return"
               /\ call_in.outcomes[j].next_state = state_ready

\* Event a occurs in q, and event b occurs after it.
Then(q, a, b) == \E i, j \in DOMAIN q : i < j /\ q[i] = a /\ q[j] = b

\* C23: in Module.run, if run_step raises StopIteration the module ends the
\* run in state Zombie and run() returns without error; if run_step raises
\* any other exception the module ends in state Zombie, the exception hook of
\* the tracer is called, tracer end_run and the end_run callback of the module
\* still run, and only then a RuntimeError is raised.
C23_StepExceptions ==
    ModuleRan =>
        LET r == call_out.result IN
        /\ LoopLeftBy("StopIteration") =>
              /\ r.err = "none"
              /\ r.state = state_zombie
              /\ "tracer.exception" \notin SeqToSet(r.events)
        /\ LoopLeftBy("Exception") =>
              /\ r.err = "RuntimeError"
              /\ r.state = state_zombie
              /\ Then(r.events, "tracer.exception", "tracer.end_run")
              /\ Then(r.events, "tracer.end_run", "end_run")
              /\ r.events[Len(r.events)] = "end_run"

\* A run whose second run_step raised an exception has ended with RuntimeError.
C23_Witness ==
    /\ ModuleRan
    /\ Len(call_in.outcomes) = 2
    /\ LoopLeftBy("Exception")
    /\ call_in.outcomes[2].kind = "Exception"
    /\ call_out.result.err = "RuntimeError"

\* The number of times x occurs in q.
Count(q, x) == Cardinality({i \in DOMAIN q : q[i] = x})

\* The callbacks registered with on_tick_once so far: those of the host
\* program and those registered by a callback that was called.
OnceRegistered ==
    SeqToSet(call_in.tick_once_procs)
        \cup {RegisteredBy(x) : x \in {y \in SeqToSet(call_out.calls) \cap Callbacks :
                                          call_in.beh[y] = "register"}}

\* C28: every callback registered with on_tick_once is called exactly once
\* and never again, also when it was registered from inside a tick or
\* tick-once callback: after a tick it has been called once, or it was
\* registered during that tick and waits in _tick_once_procs for the next.
C28_TickOnceCalledOnce ==
    (call_out.fn = "tick" /\ call_out.ticks > 0) =>
        \A x \in OnceRegistered :
            \/ Count(call_out.calls, x) = 1 /\ Count(call_out.tick_once_procs, x) = 0
            \/ Count(call_out.calls, x) = 0 /\ Count(call_out.tick_once_procs, x) = 1

\* is_ready has returned from a call on a Blocked module that is no input
\* module and has a bound input slot.
BlockedCalled ==
    /\ call_out.fn = "is_ready"
    /\ call_in.st[call_in.m] = state_blocked
    /\ ~is_input(call_in.m)
    /\ has_any_input(call_in.slots, call_in.m)

\* The bound input slots of the module is_ready is called on.
BoundSlots == {n \in DOMAIN call_in.slots[call_in.m] : call_in.slots[call_in.m][n] # None}

\* The producer of bound slot n is Terminated or Invalid.
ProducerDead(n) ==
    call_in.st[call_in.slots[call_in.m][n]] \in {state_terminated, state_invalid}

C32_ExitAfterMaxIterPasses ==
    (/\ call_out.fn = "passes"
     /\ ~call_in.opts.none
     /\ call_in.opts.max_iter # 0
     /\ ~call_out.others)
        => (call_out.selected <=> call_out.passes < call_in.opts.max_iter)

\* C33: after a reachability computation every module named in some R[u]
\* can reach a visualization, itself included, and a module that reaches no
\* visualization is in no R[u].
C33_OnlyModulesReachingVis ==
    ReachDone =>
        LET R == call_out.result.reachability IN
        /\ \A u \in DOMAIN R : \A v \in R[u] :
               v \in DOMAIN call_in.deps /\ ReachesVis(call_in.deps, v)
        /\ \A v \in DOMAIN call_in.deps :
               ~ReachesVis(call_in.deps, v) => \A u \in DOMAIN R : v \notin R[u]

\* A computation over inp -> flt and inp -> vis: flt reaches no
\* visualization and is filtered out of R[inp], which keeps vis.
C33_Witness ==
    /\ ReachDone
    /\ call_in.deps = [inp |-> {}, flt |-> {"inp"}, vis |-> {"inp"}]
    /\ call_out.result.reachability["inp"] = {"inp", "vis"}
    /\ call_out.result.reachability["flt"] = {}

\* The calls of q made on the step hooks of the tracer, in order.
StepHooks(q) ==
    SelectSeq(q, LAMBDA e : e \in {"tracer.before_run_step", "tracer.after_run_step"})

\* C35: in every Module.run that is not rejected because the module is
\* running already: tracer.start_run is called once, before any step hook;
\* the step hooks alternate, every before_run_step being followed by one
\* after_run_step; tracer.terminated is called iff the final state is
\* Zombie; tracer.end_run is called exactly once, after all step hooks.
C35_TracerHooksPaired ==
    (call_out.fn = "run" /\ call_in.state # state_running) =>
        LET q == call_out.result.events
            hooks == StepHooks(q)
        IN
        /\ Count(q, "tracer.start_run") = 1
        /\ \A i, j \in DOMAIN q :
               (q[i] = "tracer.start_run" /\ q[j] \in SeqToSet(hooks)) => i < j
        /\ Len(hooks) % 2 = 0
        /\ \A i \in DOMAIN hooks :
               hooks[i] = IF i % 2 = 1 THEN "tracer.before_run_step"
                          ELSE "tracer.after_run_step"
        /\ ("tracer.terminated" \in SeqToSet(q)) <=> (call_out.result.state = state_zombie)
        /\ Count(q, "tracer.end_run") = 1
        /\ \A i, j \in DOMAIN q :
               (q[i] = "tracer.end_run" /\ q[j] \in SeqToSet(hooks)) => j < i

\* The positions slice(start, stop) stands for.
SliceRows(sl) == {p \in 0..(MaxRows - 1) : sl.start <= p /\ p < sl.stop}

\* q holds every position of S once, in increasing order.
HoldsExactly(q, S) ==
    /\ SeqToSet(q) = S
    /\ \A i \in 1..(Len(q) - 1) : q[i] < q[i + 1]

C37_NotRunningAfterRun ==
    (call_out.fn = "run" /\ call_in.state # state_running) =>
        /\ call_out.result.state # state_running
        /\ module_run(call_out.result.state, "none", <<>>).err # "ProgressiveError"

\* C39: the stop after one module run that step() installs does not
\* persist: in a run started by start() without a tick_proc, also after a
\* step(), the loop is stopped only by a stop() of the host.
C39_StepDoesNotPersist ==
    (call_out.fn = "starts" /\ call_out.kind = "start" /\ call_out.running)
        => (call_out.stopped => call_out.by_host)

\* C40: every row id that Bisect.run_step or RangeQuery.run_step has read
\* from its 'table' slot has been passed to the selection when the step
\* returns, also when it returns Blocked with steps_run = 0 because a table
\* of limits is still empty.
C40_ConsumedRowsApplied ==
    (call_out.fn = "select" /\ call_out.op = "run_step")
        => call_out.consumed \subseteq call_out.handed

====
